---- MODULE Spec2Model ----
(***************************************************************************)
(* A model of the bronzebeard RISC-V assembler (bronzebeard/asm.py): the   *)
(* reader, the parser, the resolver passes of assemble() and the           *)
(* instruction encoders.                                                   *)
(*                                                                         *)
(* A source program is a sequence of statements (one per source line).     *)
(* assemble() is modelled pass by pass: every pass of the pipeline is one  *)
(* action that rewrites the item list and the environment exactly as the   *)
(* pass does, or ends the run with the exception the pass raises.          *)
(***************************************************************************)
EXTENDS Integers, Sequences, FiniteSets, TLC

VARIABLES
    src,        \* the source: a sequence of statements, one per line
    compress,   \* the compress option of assemble()
    pc,         \* the pass of assemble() that runs next ("done" / "failed" at the end)
    items,      \* the item list handed from pass to pass
    constants,  \* the constants map (name -> integer)
    labels,     \* the labels map (name -> byte position)
    alog,       \* what resolve_aligns did for every Align it met (observation only)
    err,        \* "" or the type of the exception that ended assemble()
    program,    \* the output of resolve_blobs: a sequence of chunks
    rin,        \* input of a helper modelled on its own (relocation: a wide integer; the reader: source and files)
    rout        \* its result

vars == <<src, compress, pc, items, constants, labels, alog, err, program, rin, rout>>

(***************************************************************************)
(* Bounds of the model.                                                    *)
(***************************************************************************)
MaxLen == 3

(***************************************************************************)
(* Small helpers.                                                          *)
(***************************************************************************)
EmptyMap == [k \in {} |-> 0]

Pow2(n) == 2 ^ n

RECURSIVE Zeros(_)
Zeros(n) == IF n <= 0 THEN <<>> ELSE <<0>> \o Zeros(n - 1)

(***************************************************************************)
(* Python integers are unbounded.  Where a computation of the source can   *)
(* leave the 32-bit range the model keeps an integer v as the pair         *)
(* [q, r] with v = q * 4096 + r and 0 <= r < 4096 ("wide" integer).        *)
(***************************************************************************)
Wide(q, r) == [q |-> q, r |-> r]
ToWide(v) == Wide(v \div 4096, v % 4096)
FromWide(w) == w.q * 4096 + w.r
WAdd(a, b) == Wide(a.q + b.q + ((a.r + b.r) \div 4096), (a.r + b.r) % 4096)

\* sign_extend(value, bits) for bits = 32 on a wide integer
sign_extend32(w) ==
    LET sign_bit == (w.q \div Pow2(19)) % 2     \* value & (1 << 31), as a bit
    IN  Wide((w.q % Pow2(19)) - sign_bit * Pow2(19), w.r)

\* sign_extend(value, bits): (value & (sign_bit - 1)) - (value & sign_bit)
sign_extend(value, bits) ==
    LET sign_bit == Pow2(bits - 1)
    IN  (value % sign_bit) - ((value \div sign_bit) % 2) * sign_bit

relocate_hi_nocarry(w) == sign_extend(w.q % Pow2(20), 20)

\* relocate_hi on a wide integer: if imm & 0x800: imm += 2**12;
\* return sign_extend((imm >> 12) & 0xfffff, 20)
relocate_hi_w(w) ==
    LET imm == IF (w.r \div 2048) % 2 = 1 THEN Wide(w.q + 1, w.r) ELSE w
    IN  sign_extend(imm.q % Pow2(20), 20)

\* relocate_lo on a wide integer: sign_extend(imm & 0xfff, 12)
relocate_lo_w(w) == sign_extend(w.r, 12)

relocate_hi(imm) == relocate_hi_w(ToWide(imm))
relocate_lo(imm) == relocate_lo_w(ToWide(imm))

\* c_int32(value).value
c_int32(value) == FromWide(sign_extend32(ToWide(value)))

(***************************************************************************)
(* Registers.                                                              *)
(***************************************************************************)
\* An operand of a statement is a token: a numeric literal (num, with its
\* value v) or an identifier (id).  A numeric token stands for the numeric
\* string and for the integer alike: int(reg, base=0) makes them the same.
\* mod is the modifier written around an immediate operand (%hi, %lo, %offset).
N(v) == [num |-> TRUE, v |-> v, id |-> "", mod |-> ""]
Id(s) == [num |-> FALSE, v |-> 0, id |-> s, mod |-> ""]
WithMod(m, tok) == [tok EXCEPT !.mod = m]

\* an is_int that accepts nothing
is_int_never(tok) == FALSE

\* is_int(value)
is_int(tok) == tok.num

\* the REGISTERS table: its name and alias keys (the integer keys n -> n and
\* the numeric-string keys are the numeric tokens 0..31)
REGISTERS ==
    LET names == <<"x0", "x1", "x2", "x3", "x4", "x5", "x6", "x7", "x8", "x9", "x10",
                   "x11", "x12", "x13", "x14", "x15", "x16", "x17", "x18", "x19", "x20",
                   "x21", "x22", "x23", "x24", "x25", "x26", "x27", "x28", "x29", "x30",
                   "x31">>
        aliases == <<"zero", "ra", "sp", "gp", "tp", "t0", "t1", "t2", "s0", "s1", "a0",
                     "a1", "a2", "a3", "a4", "a5", "a6", "a7", "s2", "s3", "s4",
                     "s5", "s6", "s7", "s8", "s9", "s10", "s11", "t3", "t4", "t5",
                     "t6">>
    IN  [s \in {names[i] : i \in 1..32} \cup {aliases[i] : i \in 1..32} \cup {"fp"} |->
            IF s = "fp" THEN 8
            ELSE (CHOOSE i \in 1..32 : names[i] = s \/ aliases[i] = s) - 1]

\* a lookup_register that takes "fp" for x9
lookup_register_fp9(reg, compressed) ==
    IF (reg.num /\ reg.v \notin 0..31) \/ (~reg.num /\ reg.id \notin DOMAIN REGISTERS)
    THEN [ok |-> FALSE, v |-> 0]
    ELSE LET r == IF reg.num THEN reg.v ELSE IF reg.id = "fp" THEN 9 ELSE REGISTERS[reg.id]
         IN  IF compressed
             THEN IF r < 8 \/ r > 15 THEN [ok |-> FALSE, v |-> 0]
                  ELSE [ok |-> TRUE, v |-> r - 8]
             ELSE [ok |-> TRUE, v |-> r]

\* lookup_register(reg, compressed): [ok |-> FALSE] stands for the ValueError
lookup_register(reg, compressed) ==
    IF (reg.num /\ reg.v \notin 0..31) \/ (~reg.num /\ reg.id \notin DOMAIN REGISTERS)
    THEN [ok |-> FALSE, v |-> 0]
    ELSE LET r == IF reg.num THEN reg.v ELSE REGISTERS[reg.id]
         IN  IF compressed
             THEN IF r < 8 \/ r > 15 THEN [ok |-> FALSE, v |-> 0]
                  ELSE [ok |-> TRUE, v |-> r - 8]
             ELSE [ok |-> TRUE, v |-> r]

(***************************************************************************)
(* Encoders.  An encoding is the sequence of the fields the encoder ORs    *)
(* into the code, each <<value, shift>> for "code |= value << shift" (the  *)
(* fields of one encoder never overlap).  Bad stands for the ValueError.   *)
(***************************************************************************)
Bad == [ok |-> FALSE, code |-> <<>>]
Good(fields) == [ok |-> TRUE, code |-> fields]

\* constraint_not(field, value), applied to the value of the field
constraint_not(fieldval, value) == fieldval # value

r_type(rd, rs1, rs2, opcode, funct3, funct7) ==
    LET d == lookup_register(rd, FALSE)
        a == lookup_register(rs1, FALSE)
        b == lookup_register(rs2, FALSE)
    IN  IF ~(d.ok /\ a.ok /\ b.ok) THEN Bad
        ELSE Good(<<<<opcode, 0>>, <<d.v, 7>>, <<funct3, 12>>, <<a.v, 15>>,
                    <<b.v, 20>>, <<funct7, 25>>>>)

\* an i_type whose upper bound is off by one
i_type_upto_2048(rd, rs1, imm, opcode, funct3) ==
    LET d == lookup_register(rd, FALSE)
        a == lookup_register(rs1, FALSE)
    IN  IF ~(d.ok /\ a.ok) THEN Bad
        ELSE IF imm < -2048 \/ imm > 2048 THEN Bad
        ELSE Good(<<<<opcode, 0>>, <<d.v, 7>>, <<funct3, 12>>, <<a.v, 15>>,
                    <<imm % 4096, 20>>>>)

i_type(rd, rs1, imm, opcode, funct3) ==
    LET d == lookup_register(rd, FALSE)
        a == lookup_register(rs1, FALSE)
    IN  IF ~(d.ok /\ a.ok) THEN Bad
        ELSE IF imm < -2048 \/ imm > 2047 THEN Bad
        ELSE Good(<<<<opcode, 0>>, <<d.v, 7>>, <<funct3, 12>>, <<a.v, 15>>,
                    <<imm % 4096, 20>>>>)

ij_type(rd, rs1, imm, opcode, funct3) ==
    LET d == lookup_register(rd, FALSE)
        a == lookup_register(rs1, FALSE)
    IN  IF ~(d.ok /\ a.ok) THEN Bad
        ELSE IF imm < -2048 \/ imm > 2047 THEN Bad
        ELSE IF imm % 2 # 0 THEN Bad
        ELSE Good(<<<<opcode, 0>>, <<d.v, 7>>, <<funct3, 12>>, <<a.v, 15>>,
                    <<imm % 4096, 20>>>>)

s_type(rs1, rs2, imm, opcode, funct3) ==
    LET a == lookup_register(rs1, FALSE)
        b == lookup_register(rs2, FALSE)
    IN  IF ~(a.ok /\ b.ok) THEN Bad
        ELSE IF imm < -2048 \/ imm > 2047 THEN Bad
        ELSE LET u == imm % 4096
             IN  Good(<<<<opcode, 0>>, <<u % 32, 7>>, <<funct3, 12>>, <<a.v, 15>>,
                        <<b.v, 20>>, <<(u \div 32) % 128, 25>>>>)

b_type(rs1, rs2, imm, opcode, funct3) ==
    LET a == lookup_register(rs1, FALSE)
        b == lookup_register(rs2, FALSE)
    IN  IF ~(a.ok /\ b.ok) THEN Bad
        ELSE IF imm < -4096 \/ imm > 4095 THEN Bad
        ELSE IF imm % 2 # 0 THEN Bad
        ELSE LET u == (imm \div 2) % 4096
             IN  Good(<<<<opcode, 0>>, <<(u \div 1024) % 2, 7>>, <<u % 16, 8>>,
                        <<funct3, 12>>, <<a.v, 15>>, <<b.v, 20>>,
                        <<(u \div 16) % 64, 25>>, <<(u \div 2048) % 2, 31>>>>)

u_type(rd, imm, opcode) ==
    LET d == lookup_register(rd, FALSE)
        i == IF imm >= 524288 /\ imm <= 1048575 THEN imm - 1048576 ELSE imm
    IN  IF ~d.ok THEN Bad
        ELSE IF i < -524288 \/ i > 524287 THEN Bad
        ELSE Good(<<<<opcode, 0>>, <<d.v, 7>>, <<i % 1048576, 12>>>>)

j_type(rd, imm, opcode) ==
    LET d == lookup_register(rd, FALSE)
    IN  IF ~d.ok THEN Bad
        ELSE IF imm < -1048576 \/ imm > 1048575 THEN Bad
        ELSE IF imm % 2 # 0 THEN Bad
        ELSE LET u == (imm \div 2) % 1048576
             IN  Good(<<<<opcode, 0>>, <<d.v, 7>>, <<(u \div 2048) % 256, 12>>,
                        <<(u \div 1024) % 2, 20>>, <<u % 1024, 21>>,
                        <<(u \div 524288) % 2, 31>>>>)

(***************************************************************************)
(* Compressed encoders.  cs is the set of the constraints of the form      *)
(* (RegRdRs1NotZero, ...); a failed constraint is a ValueError too.        *)
(***************************************************************************)
\* the constraints without RegRdRs1NotTwo
Constraints_without_two(cs, rd_rs1, rs2, imm) ==
    /\ ("RegRdRs1NotZero" \in cs => constraint_not(rd_rs1, 0))
    /\ ("RegRs2NotZero" \in cs => constraint_not(rs2, 0))
    /\ ("ImmNotZero" \in cs => constraint_not(imm, 0))

\* "for c in cs or []: c(rd_rs1=rd_rs1, rs2=rs2, imm=imm)" holds without a ValueError
Constraints(cs, rd_rs1, rs2, imm) ==
    /\ ("RegRdRs1NotZero" \in cs => constraint_not(rd_rs1, 0))
    /\ ("RegRdRs1NotTwo" \in cs => constraint_not(rd_rs1, 2))
    /\ ("RegRs2NotZero" \in cs => constraint_not(rs2, 0))
    /\ ("ImmNotZero" \in cs => constraint_not(imm, 0))

\* c.jr, c.mv, c.ebreak, c.jalr, c.add
cr_type(rd_rs1, rs2, opcode, funct4, cs) ==
    LET d == lookup_register(rd_rs1, FALSE)
        b == lookup_register(rs2, FALSE)
    IN  IF ~(d.ok /\ b.ok) THEN Bad
        ELSE IF ~Constraints(cs, d.v, b.v, 1) THEN Bad
        ELSE Good(<<<<opcode, 0>>, <<b.v, 2>>, <<d.v, 7>>, <<funct4, 12>>>>)

\* c.nop, c.addi, c.li, c.slli
ci_type(rd_rs1, imm, opcode, funct3, cs) ==
    LET d == lookup_register(rd_rs1, FALSE)
    IN  IF ~d.ok THEN Bad
        ELSE IF imm < -32 \/ imm > 31 THEN Bad
        ELSE IF ~Constraints(cs, d.v, 1, imm) THEN Bad
        ELSE LET u == imm % 64
             IN  Good(<<<<opcode, 0>>, <<u % 32, 2>>, <<d.v, 7>>,
                        <<(u \div 32) % 2, 12>>, <<funct3, 13>>>>)

\* c.addi16sp
cia_type(imm, opcode, funct3, cs) ==
    IF imm < -512 \/ imm > 511 THEN Bad
    ELSE IF imm % 16 # 0 THEN Bad
    ELSE IF ~Constraints(cs, 1, 1, imm) THEN Bad
    ELSE LET u == (imm \div 16) % 64
         IN  Good(<<<<opcode, 0>>, <<(u \div 2) % 2, 2>>, <<(u \div 8) % 4, 3>>,
                    <<(u \div 4) % 2, 5>>, <<u % 2, 6>>, <<2, 7>>,
                    <<(u \div 32) % 2, 12>>, <<funct3, 13>>>>)

\* c.lui
ciu_type(rd_rs1, imm, opcode, funct3, cs) ==
    LET d == lookup_register(rd_rs1, FALSE)
        i == IF imm >= 1048544 /\ imm <= 1048575 THEN imm - 1048576 ELSE imm
    IN  IF ~d.ok THEN Bad
        ELSE IF i < -32 \/ i > 31 THEN Bad
        ELSE IF ~Constraints(cs, d.v, 1, i) THEN Bad
        ELSE LET u == i % 64
             IN  Good(<<<<opcode, 0>>, <<u % 32, 2>>, <<d.v, 7>>,
                        <<(u \div 32) % 2, 12>>, <<funct3, 13>>>>)

\* c.lwsp
cil_type(rd_rs1, imm, opcode, funct3, cs) ==
    LET d == lookup_register(rd_rs1, FALSE)
    IN  IF ~d.ok THEN Bad
        ELSE IF imm < 0 \/ imm > 255 THEN Bad
        ELSE IF imm % 4 # 0 THEN Bad
        ELSE IF ~Constraints(cs, d.v, 1, imm) THEN Bad
        ELSE LET u == (imm \div 4) % 64
             IN  Good(<<<<opcode, 0>>, <<(u \div 16) % 4, 2>>, <<u % 8, 4>>,
                        <<d.v, 7>>, <<(u \div 8) % 2, 12>>, <<funct3, 13>>>>)

\* c.swsp
css_type(rs2, imm, opcode, funct3, cs) ==
    LET b == lookup_register(rs2, FALSE)
    IN  IF ~b.ok THEN Bad
        ELSE IF imm < 0 \/ imm > 255 THEN Bad
        ELSE IF imm % 4 # 0 THEN Bad
        ELSE IF ~Constraints(cs, 1, b.v, imm) THEN Bad
        ELSE LET u == (imm \div 4) % 64
             IN  Good(<<<<opcode, 0>>, <<b.v, 2>>, <<(u \div 16) % 4, 7>>,
                        <<u % 16, 9>>, <<funct3, 13>>>>)

\* c.addi4spn
ciw_type(rd, imm, opcode, funct3, cs) ==
    LET d == lookup_register(rd, TRUE)
    IN  IF ~d.ok THEN Bad
        ELSE IF imm < 0 \/ imm > 1023 THEN Bad
        ELSE IF imm % 4 # 0 THEN Bad
        ELSE IF ~Constraints(cs, 1, 1, imm) THEN Bad
        ELSE LET u == (imm \div 4) % 256
             IN  Good(<<<<opcode, 0>>, <<d.v, 2>>, <<(u \div 2) % 2, 5>>, <<u % 2, 6>>,
                        <<(u \div 16) % 16, 7>>, <<(u \div 4) % 4, 11>>, <<funct3, 13>>>>)

\* c.lw
cl_type(rd, rs1, imm, opcode, funct3, cs) ==
    LET d == lookup_register(rd, TRUE)
        a == lookup_register(rs1, TRUE)
    IN  IF ~(d.ok /\ a.ok) THEN Bad
        ELSE IF imm < 0 \/ imm > 127 THEN Bad
        ELSE IF imm % 4 # 0 THEN Bad
        ELSE IF ~Constraints(cs, 1, 1, imm) THEN Bad
        ELSE LET u == (imm \div 4) % 32
             IN  Good(<<<<opcode, 0>>, <<d.v, 2>>, <<(u \div 16) % 2, 5>>, <<u % 2, 6>>,
                        <<a.v, 7>>, <<(u \div 2) % 8, 10>>, <<funct3, 13>>>>)

\* c.sw
cs_type(rs1, rs2, imm, opcode, funct3, cs) ==
    LET a == lookup_register(rs1, TRUE)
        b == lookup_register(rs2, TRUE)
    IN  IF ~(a.ok /\ b.ok) THEN Bad
        ELSE IF imm < 0 \/ imm > 127 THEN Bad
        ELSE IF imm % 4 # 0 THEN Bad
        ELSE IF ~Constraints(cs, 1, b.v, imm) THEN Bad
        ELSE LET u == (imm \div 4) % 32
             IN  Good(<<<<opcode, 0>>, <<b.v, 2>>, <<(u \div 16) % 2, 5>>, <<u % 2, 6>>,
                        <<a.v, 7>>, <<(u \div 2) % 8, 10>>, <<funct3, 13>>>>)

\* c.sub, c.xor, c.or, c.and
ca_type(rd_rs1, rs2, opcode, funct2, funct6, cs) ==
    LET d == lookup_register(rd_rs1, TRUE)
        b == lookup_register(rs2, TRUE)
    IN  IF ~(d.ok /\ b.ok) THEN Bad
        ELSE IF ~Constraints(cs, d.v, b.v, 1) THEN Bad
        ELSE Good(<<<<opcode, 0>>, <<b.v, 2>>, <<funct2, 5>>, <<d.v, 7>>, <<funct6, 10>>>>)

\* c.beqz, c.bnez: no range and no parity check on imm
cb_type(rs1, imm, opcode, funct3, cs) ==
    LET a == lookup_register(rs1, TRUE)
    IN  IF ~a.ok THEN Bad
        ELSE IF ~Constraints(cs, 1, 1, imm) THEN Bad
        ELSE LET u == (imm \div 2) % 256
             IN  Good(<<<<opcode, 0>>, <<(u \div 16) % 2, 2>>, <<u % 4, 3>>,
                        <<(u \div 32) % 4, 5>>, <<a.v, 7>>, <<(u \div 4) % 4, 10>>,
                        <<(u \div 128) % 2, 12>>, <<funct3, 13>>>>)

\* c.srli, c.srai, c.andi: no range check on imm
cbi_type(rd_rs1, imm, opcode, funct2, funct3, cs) ==
    LET d == lookup_register(rd_rs1, TRUE)
    IN  IF ~d.ok THEN Bad
        ELSE IF ~Constraints(cs, d.v, 1, imm) THEN Bad
        ELSE LET u == imm % 64
             IN  Good(<<<<opcode, 0>>, <<u % 32, 2>>, <<d.v, 7>>, <<funct2, 10>>,
                        <<(u \div 32) % 2, 12>>, <<funct3, 13>>>>)

\* c.jal, c.j
cj_type(imm, opcode, funct3, cs) ==
    IF imm < -2048 \/ imm > 2047 THEN Bad
    ELSE IF imm % 2 # 0 THEN Bad
    ELSE IF ~Constraints(cs, 1, 1, imm) THEN Bad
    ELSE LET u == (imm \div 2) % 2048
         IN  Good(<<<<opcode, 0>>, <<(u \div 16) % 2, 2>>, <<u % 8, 3>>,
                    <<(u \div 64) % 2, 6>>, <<(u \div 32) % 2, 7>>,
                    <<(u \div 512) % 2, 8>>, <<(u \div 128) % 4, 9>>,
                    <<(u \div 8) % 2, 11>>, <<(u \div 1024) % 2, 12>>, <<funct3, 13>>>>)

(***************************************************************************)
(* Expressions (class Expr).  The arithmetic sub-language is modelled for  *)
(* expressions of one token: a numeric literal or a name.                  *)
(***************************************************************************)
Arithmetic(tok) == [op |-> "arith", tok |-> tok]
Offset(reference) == [op |-> "offset", ref |-> reference]
Hi(e) == [op |-> "hi", e |-> e]
Lo(e) == [op |-> "lo", e |-> e]
Resolved(v) == [op |-> "int", v |-> v]      \* an immediate after resolve_immediates

EvalErr == [ok |-> FALSE, v |-> 0]          \* the AssemblerError of Expr.eval
EvalOk(v) == [ok |-> TRUE, v |-> v]

\* Expr.eval(position, env, line) of Arithmetic, Offset, Hi and Lo
RECURSIVE Eval(_, _, _)
Eval(e, position, env) ==
    CASE e.op = "arith" ->
            IF e.tok.num THEN EvalOk(e.tok.v)
            ELSE IF e.tok.id \in DOMAIN env THEN EvalOk(env[e.tok.id])
            ELSE EvalErr
      [] e.op = "offset" ->
            IF e.ref \notin DOMAIN env THEN EvalErr
            ELSE EvalOk(env[e.ref] - position)
      [] e.op \in {"hi", "lo"} ->
            LET inner == Eval(e.e, position, env)
            IN  IF ~inner.ok THEN EvalErr
                ELSE IF e.op = "hi" THEN EvalOk(relocate_hi(inner.v))
                ELSE EvalOk(relocate_lo(inner.v))
      [] OTHER -> EvalErr

\* a chain in which the second map wins
ChainMap_second_first(first, second) == second @@ first

\* ChainMap(constants, labels): the first map that has the name wins
ChainMap(first, second) == first @@ second

(***************************************************************************)
(* Items (class Item and its subclasses).  Every item is a record of the   *)
(* same shape; t is the class, the other fields are the attributes the     *)
(* class has (the rest keep their blank values).                           *)
(***************************************************************************)
\* a chunk of output: explicit bytes b followed by f bytes of an included file
Chunk(b, f) == [b |-> b, f |-> f]

Blank == [t |-> "", line |-> 0, name |-> "", rd |-> Id(""), rs1 |-> Id(""),
          rs2 |-> Id(""), rd_rs1 |-> Id(""), imm |-> [op |-> "none"], args |-> <<>>,
          n |-> 0, vals |-> <<>>, data |-> [b |-> <<>>, f |-> 0], is_auipc_jump |-> FALSE]

Label(line, name) == [Blank EXCEPT !.t = "Label", !.line = line, !.name = name]
\* name is the token before the "=": args keeps it, name is its text
Constant(line, name, expr) ==
    [Blank EXCEPT !.t = "Constant", !.line = line, !.name = name.id, !.args = <<name>>,
                  !.imm = expr]
Align(line, alignment) == [Blank EXCEPT !.t = "Align", !.line = line, !.n = alignment]
Sequence(line, name, values) ==
    [Blank EXCEPT !.t = "Sequence", !.line = line, !.name = name, !.vals = values]
IncludeBytes(line, fsize) == [Blank EXCEPT !.t = "IncludeBytes", !.line = line, !.n = fsize]
Blob(line, data) == [Blank EXCEPT !.t = "Blob", !.line = line, !.data = data]
PseudoInstruction(line, name, args) ==
    [Blank EXCEPT !.t = "Pseudo", !.line = line, !.name = name, !.args = args]
RTypeInstruction(line, name, rd, rs1, rs2) ==
    [Blank EXCEPT !.t = "R", !.line = line, !.name = name, !.rd = rd, !.rs1 = rs1, !.rs2 = rs2]
ITypeInstruction(line, name, rd, rs1, imm, is_auipc_jump) ==
    [Blank EXCEPT !.t = "I", !.line = line, !.name = name, !.rd = rd, !.rs1 = rs1,
                  !.imm = imm, !.is_auipc_jump = is_auipc_jump]
IETypeInstruction(line, name) == [Blank EXCEPT !.t = "IE", !.line = line, !.name = name]
STypeInstruction(line, name, rs1, rs2, imm) ==
    [Blank EXCEPT !.t = "S", !.line = line, !.name = name, !.rs1 = rs1, !.rs2 = rs2, !.imm = imm]
BTypeInstruction(line, name, rs1, rs2, imm) ==
    [Blank EXCEPT !.t = "B", !.line = line, !.name = name, !.rs1 = rs1, !.rs2 = rs2, !.imm = imm]
UTypeInstruction(line, name, rd, imm) ==
    [Blank EXCEPT !.t = "U", !.line = line, !.name = name, !.rd = rd, !.imm = imm]
JTypeInstruction(line, name, rd, imm) ==
    [Blank EXCEPT !.t = "J", !.line = line, !.name = name, !.rd = rd, !.imm = imm]
\* an item of a subclass t of CompressedInstruction with the attributes given
CompressedInstruction(attrs) == attrs @@ Blank

CompressedTypes == {"CR", "CRJ", "CRE", "CI", "CIA", "CIN", "CSS", "CIW", "CL", "CS",
                    "CA", "CB", "CJ"}
\* isinstance(item, Instruction)
IsInstruction(item) == item.t \in {"R", "I", "IE", "S", "B", "U", "J", "Pseudo"} \cup CompressedTypes
\* isinstance(item, CompressedInstruction)
IsCompressed(item) == item.t \in CompressedTypes

\* Item.size() of every class
Size(item) ==
    CASE item.t \in {"Label", "Constant"} -> 0
      [] item.t = "Align" -> item.n
      [] item.t = "IncludeBytes" -> item.n
      [] item.t = "Sequence" -> Len(item.vals)        \* sizes['bytes'] * len(values)
      [] item.t = "Blob" -> Len(item.data.b) + item.data.f
      [] item.t = "Pseudo" -> IF item.name \in {"li", "call", "tail"} THEN 8 ELSE 4
      [] item.t \in CompressedTypes -> 2
      [] OTHER -> 4

(***************************************************************************)
(* struct.pack of an encoding, and the INSTRUCTIONS table.                 *)
(***************************************************************************)
\* byte k (little endian) of value << shift
FieldByte(field, k) ==
    LET d == field[2] - 8 * k
    IN  IF d >= 8 THEN 0
        ELSE IF d >= 0 THEN (field[1] * Pow2(d)) % 256
        ELSE (field[1] \div Pow2(0 - d)) % 256

RECURSIVE CodeByte(_, _)
CodeByte(fields, k) ==
    IF fields = <<>> THEN 0 ELSE FieldByte(Head(fields), k) + CodeByte(Tail(fields), k)

\* struct.pack('<I', code) and struct.pack('<H', code)
Pack(fields, nbytes) == [k \in 1..nbytes |-> CodeByte(fields, k - 1)]

\* INSTRUCTIONS[item.name](*item.args()) for an item with a resolved immediate
Encode(item) ==
    LET n == item.name
        imm == item.imm.v
    IN  CASE n = "lui"   -> u_type(item.rd, imm, \b0110111)
          [] n = "auipc" -> u_type(item.rd, imm, \b0010111)
          [] n = "jal"   -> j_type(item.rd, imm, \b1101111)
          [] n = "jalr"  -> ij_type(item.rd, item.rs1, imm, \b1100111, \b000)
          [] n = "beq"   -> b_type(item.rs1, item.rs2, imm, \b1100011, \b000)
          [] n = "bne"   -> b_type(item.rs1, item.rs2, imm, \b1100011, \b001)
          [] n = "blt"   -> b_type(item.rs1, item.rs2, imm, \b1100011, \b100)
          [] n = "bge"   -> b_type(item.rs1, item.rs2, imm, \b1100011, \b101)
          [] n = "bltu"  -> b_type(item.rs1, item.rs2, imm, \b1100011, \b110)
          [] n = "bgeu"  -> b_type(item.rs1, item.rs2, imm, \b1100011, \b111)
          [] n = "lw"    -> i_type(item.rd, item.rs1, imm, \b0000011, \b010)
          [] n = "sw"    -> s_type(item.rs1, item.rs2, imm, \b0100011, \b010)
          [] n = "addi"  -> i_type(item.rd, item.rs1, imm, \b0010011, \b000)
          [] n = "sltiu" -> i_type(item.rd, item.rs1, imm, \b0010011, \b011)
          [] n = "xori"  -> i_type(item.rd, item.rs1, imm, \b0010011, \b100)
          [] n = "andi"  -> i_type(item.rd, item.rs1, imm, \b0010011, \b111)
          [] n = "slli"  -> r_type(item.rd, item.rs1, item.rs2, \b0010011, \b001, \b0000000)
          [] n = "srli"  -> r_type(item.rd, item.rs1, item.rs2, \b0010011, \b101, \b0000000)
          [] n = "srai"  -> r_type(item.rd, item.rs1, item.rs2, \b0010011, \b101, \b0100000)
          [] n = "add"   -> r_type(item.rd, item.rs1, item.rs2, \b0110011, \b000, \b0000000)
          [] n = "sub"   -> r_type(item.rd, item.rs1, item.rs2, \b0110011, \b000, \b0100000)
          [] n = "slt"   -> r_type(item.rd, item.rs1, item.rs2, \b0110011, \b010, \b0000000)
          [] n = "sltu"  -> r_type(item.rd, item.rs1, item.rs2, \b0110011, \b011, \b0000000)
          [] n = "xor"   -> r_type(item.rd, item.rs1, item.rs2, \b0110011, \b100, \b0000000)
          [] n = "or"    -> r_type(item.rd, item.rs1, item.rs2, \b0110011, \b110, \b0000000)
          [] n = "and"   -> r_type(item.rd, item.rs1, item.rs2, \b0110011, \b111, \b0000000)
          [] n = "ecall"  -> i_type(N(0), N(0), 0, \b1110011, \b000)
          [] n = "ebreak" -> i_type(N(0), N(0), 1, \b1110011, \b000)
          [] n = "c.addi4spn" -> ciw_type(item.rd, imm, \b00, \b000, {"ImmNotZero"})
          [] n = "c.lw"   -> cl_type(item.rd, item.rs1, imm, \b00, \b010, {})
          [] n = "c.sw"   -> cs_type(item.rs1, item.rs2, imm, \b00, \b110, {})
          [] n = "c.nop"  -> ci_type(N(0), 0, \b01, \b000, {})
          [] n = "c.addi" -> ci_type(item.rd_rs1, imm, \b01, \b000,
                                     {"RegRdRs1NotZero", "ImmNotZero"})
          [] n = "c.jal"  -> cj_type(imm, \b01, \b001, {})
          [] n = "c.li"   -> ci_type(item.rd_rs1, imm, \b01, \b010, {"RegRdRs1NotZero"})
          [] n = "c.addi16sp" -> cia_type(imm, \b01, \b011, {"ImmNotZero"})
          [] n = "c.lui"  -> ciu_type(item.rd_rs1, imm, \b01, \b011,
                                      {"RegRdRs1NotZero", "RegRdRs1NotTwo", "ImmNotZero"})
          [] n = "c.srli" -> cbi_type(item.rs1, imm, \b01, \b00, \b100, {"ImmNotZero"})
          [] n = "c.srai" -> cbi_type(item.rs1, imm, \b01, \b01, \b100, {"ImmNotZero"})
          [] n = "c.andi" -> cbi_type(item.rs1, imm, \b01, \b10, \b100, {})
          [] n = "c.sub"  -> ca_type(item.rd_rs1, item.rs2, \b01, \b00, \b100011, {})
          [] n = "c.xor"  -> ca_type(item.rd_rs1, item.rs2, \b01, \b01, \b100011, {})
          [] n = "c.or"   -> ca_type(item.rd_rs1, item.rs2, \b01, \b10, \b100011, {})
          [] n = "c.and"  -> ca_type(item.rd_rs1, item.rs2, \b01, \b11, \b100011, {})
          [] n = "c.j"    -> cj_type(imm, \b01, \b101, {})
          [] n = "c.beqz" -> cb_type(item.rs1, imm, \b01, \b110, {})
          [] n = "c.bnez" -> cb_type(item.rs1, imm, \b01, \b111, {})
          [] n = "c.slli" -> ci_type(item.rd_rs1, imm, \b10, \b000,
                                     {"RegRdRs1NotZero", "ImmNotZero"})
          [] n = "c.lwsp" -> cil_type(item.rd_rs1, imm, \b10, \b010, {"RegRdRs1NotZero"})
          [] n = "c.jr"   -> cr_type(item.rd_rs1, N(0), \b10, \b1000, {"RegRdRs1NotZero"})
          [] n = "c.mv"   -> cr_type(item.rd_rs1, item.rs2, \b10, \b1000,
                                     {"RegRdRs1NotZero", "RegRs2NotZero"})
          [] n = "c.ebreak" -> cr_type(N(0), N(0), \b10, \b1001, {})
          [] n = "c.jalr" -> cr_type(item.rd_rs1, N(0), \b10, \b1001, {"RegRdRs1NotZero"})
          [] n = "c.add"  -> cr_type(item.rd_rs1, item.rs2, \b10, \b1001,
                                     {"RegRdRs1NotZero", "RegRs2NotZero"})
          [] n = "c.swsp" -> css_type(item.rs2, imm, \b10, \b110, {})
          [] OTHER -> Bad

(***************************************************************************)
(* The parser.  A statement is one source line after read_lines and        *)
(* lex_tokens: a label ("name:"), a constant ("name = value") or an        *)
(* operation (mnemonic or directive, head) with its operand tokens.  The   *)
(* base-offset syntax "lw rd, imm(rs1)" is written in its plain form       *)
(* "lw rd, rs1, imm".                                                      *)
(***************************************************************************)
LabelStmt(name) == [kind |-> "label", head |-> name, toks |-> <<>>]
ConstStmt(name, tok) == [kind |-> "const", head |-> "=", toks |-> <<name, tok>>]
Op(head, toks) == [kind |-> "op", head |-> head, toks |-> toks]

NoErr == [type |-> "", line |-> 0]
Raise(type, line) == [type |-> type, line |-> line]
\* an AssemblerError carries the Line; the other exceptions carry nothing
AssemblerError(line) == Raise("AssemblerError", line)
ValueError == Raise("ValueError", 0)

Parsed(item) == [err |-> NoErr, item |-> item]
ParseFail(e) == [err |-> e, item |-> Blank]

\* parse_immediate(imm, line) for an immediate of one token
parse_immediate(tok) ==
    CASE tok.mod = "%offset" -> Offset(tok.id)
      [] tok.mod = "%hi" -> Hi(Arithmetic(WithMod("", tok)))
      [] tok.mod = "%lo" -> Lo(Arithmetic(WithMod("", tok)))
      [] OTHER -> Arithmetic(tok)

\* the table (R_TYPE_INSTRUCTIONS, I_TYPE_INSTRUCTIONS, ..., PSEUDO_INSTRUCTIONS,
\* NUMERIC_SEQUENCE_NAMES) that parse_item finds the head of a statement in first
Table(h) ==
    CASE h \in {"slli", "srli", "srai", "add", "sub", "slt", "sltu", "xor", "or", "and"} -> "R"
      [] h \in {"jalr", "lw", "addi", "sltiu", "xori", "andi"} -> "I"
      [] h \in {"ecall", "ebreak"} -> "IE"
      [] h \in {"sw"} -> "S"
      [] h \in {"beq", "bne", "blt", "bge", "bltu", "bgeu"} -> "B"
      [] h \in {"lui", "auipc"} -> "U"
      [] h \in {"jal"} -> "J"
      [] h \in {"c.mv", "c.add"} -> "CR"
      [] h \in {"c.jr", "c.jalr"} -> "CRJ"
      [] h \in {"c.ebreak"} -> "CRE"
      [] h \in {"c.addi", "c.li", "c.lui", "c.slli", "c.lwsp"} -> "CI"
      [] h \in {"c.addi16sp"} -> "CIA"
      [] h \in {"c.nop"} -> "CIN"
      [] h \in {"c.swsp"} -> "CSS"
      [] h \in {"c.addi4spn"} -> "CIW"
      [] h \in {"c.lw"} -> "CL"
      [] h \in {"c.sw"} -> "CS"
      [] h \in {"c.sub", "c.xor", "c.or", "c.and"} -> "CA"
      [] h \in {"c.beqz", "c.bnez", "c.srli", "c.srai", "c.andi"} -> "CB"
      [] h \in {"c.jal", "c.j"} -> "CJ"
      [] h \in {"nop", "li", "mv", "not", "neg", "seqz", "snez", "sltz", "sgtz", "beqz",
                "bnez", "blez", "bgez", "bltz", "bgtz", "bgt", "ble", "bgtu", "bleu",
                "j", "jr", "ret", "call", "tail"} -> "Pseudo"
      [] h \in {"bytes"} -> "Sequence"
      [] OTHER -> ""

\* "name, a, b, *imm = tokens; imm = parse_immediate(imm, line)": the operands
\* before the immediate are nreg; a missing operand is the ValueError of the
\* unpacking, a missing immediate the AssemblerError of parse_immediate
WithImm(toks, nreg, line, item) ==
    IF Len(toks) < nreg THEN ParseFail(ValueError)
    ELSE IF Len(toks) = nreg THEN ParseFail(AssemblerError(line))
    ELSE Parsed(item)

\* "behavior is offset for branches / jumps to labels"
Reference(tok) == IF is_int(tok) THEN Arithmetic(tok) ELSE Offset(tok.id)

\* parse_item(line_tokens)
parse_item(st, line) ==
    LET h == st.head
        t == st.toks
        c == Table(h)
        imm(k) == parse_immediate(t[k])
        \* an item of a compressed class with the attributes given
        ci(attrs) == CompressedInstruction([t |-> c, line |-> line, name |-> h] @@ attrs)
    IN  CASE st.kind = "label" -> Parsed(Label(line, h))
          [] st.kind = "const" -> Parsed(Constant(line, t[1], imm(2)))
          \* "_, message = tokens; raise AssemblerError(message, line)": the lexer hands
          \* "error <message>" over as one message token; a head it did not recognise
          \* ("ERROR", or "error" alone) comes with as many tokens as it has words
          [] h = "error" ->
                IF Len(t) # 1 THEN ParseFail(ValueError)
                ELSE ParseFail(AssemblerError(line))
          [] h = "include_bytes" ->
                IF Len(t) # 2 THEN ParseFail(AssemblerError(line))
                ELSE Parsed(IncludeBytes(line, t[2].v))
          [] c = "Sequence" -> Parsed(Sequence(line, h, t))
          [] h = "align" ->
                IF Len(t) # 1 THEN ParseFail(ValueError)
                ELSE IF ~is_int(t[1]) THEN ParseFail(AssemblerError(line))
                ELSE Parsed(Align(line, t[1].v))
          [] c = "R" ->
                IF Len(t) # 3 THEN ParseFail(AssemblerError(line))
                ELSE Parsed(RTypeInstruction(line, h, t[1], t[2], t[3]))
          [] c = "I" ->
                IF Len(t) = 1 THEN Parsed(PseudoInstruction(line, h, t))
                ELSE IF h \in {"jalr", "lw"} /\ Len(t) < 3    \* tokens[3] == '('
                THEN ParseFail(Raise("IndexError", 0))
                ELSE WithImm(t, 2, line, ITypeInstruction(line, h, t[1], t[2], imm(3), FALSE))
          [] c = "IE" ->
                IF Len(t) # 0 THEN ParseFail(ValueError)
                ELSE Parsed(IETypeInstruction(line, h))
          [] c = "S" ->
                IF Len(t) < 3 THEN ParseFail(Raise("IndexError", 0))      \* tokens[3] == '('
                ELSE Parsed(STypeInstruction(line, h, t[1], t[2], imm(3)))
          [] c = "B" ->
                IF Len(t) # 3 THEN ParseFail(AssemblerError(line))
                ELSE Parsed(BTypeInstruction(line, h, t[1], t[2], Reference(t[3])))
          [] c = "U" -> WithImm(t, 1, line, UTypeInstruction(line, h, t[1], imm(2)))
          [] c = "J" ->
                IF Len(t) = 1 THEN Parsed(PseudoInstruction(line, h, t))
                ELSE IF Len(t) # 2 THEN ParseFail(AssemblerError(line))
                ELSE Parsed(JTypeInstruction(line, h, t[1], Reference(t[2])))
          [] c \in {"CR", "CA"} ->
                IF Len(t) # 2 THEN ParseFail(AssemblerError(line))
                ELSE Parsed(ci([rd_rs1 |-> t[1], rs2 |-> t[2]]))
          [] c = "CRJ" ->
                IF Len(t) # 1 THEN ParseFail(AssemblerError(line))
                ELSE Parsed(ci([rd_rs1 |-> t[1]]))
          [] c \in {"CRE", "CIN"} ->
                IF Len(t) # 0 THEN ParseFail(AssemblerError(line))
                ELSE Parsed(ci(<<>>))
          [] c = "CI" -> WithImm(t, 1, line, ci([rd_rs1 |-> t[1], imm |-> imm(2)]))
          [] c \in {"CIA", "CJ"} -> WithImm(t, 0, line, ci([imm |-> imm(1)]))
          [] c = "CSS" -> WithImm(t, 1, line, ci([rs2 |-> t[1], imm |-> imm(2)]))
          [] c = "CIW" -> WithImm(t, 1, line, ci([rd |-> t[1], imm |-> imm(2)]))
          [] c = "CL" ->
                IF Len(t) < 3 THEN ParseFail(Raise("IndexError", 0))      \* tokens[3] == '('
                ELSE Parsed(ci([rd |-> t[1], rs1 |-> t[2], imm |-> imm(3)]))
          [] c = "CS" ->
                IF Len(t) < 3 THEN ParseFail(Raise("IndexError", 0))      \* tokens[3] == '('
                ELSE Parsed(ci([rs1 |-> t[1], rs2 |-> t[2], imm |-> imm(3)]))
          [] c = "CB" -> WithImm(t, 1, line, ci([rs1 |-> t[1], imm |-> imm(2)]))
          [] c = "Pseudo" -> Parsed(PseudoInstruction(line, h, t))
          [] OTHER -> ParseFail(AssemblerError(line))

(***************************************************************************)
(* The passes of assemble().  A pass maps the item list and the            *)
(* environment to a result: the new item list, the updated maps and the    *)
(* exception that ended the pass (NoErr when it returned).                 *)
(***************************************************************************)
\* (log is what resolve_aligns did, for observation)
Result(its, cs, ls, e) ==
    [items |-> its, constants |-> cs, labels |-> ls, err |-> e, log |-> <<>>]

\* ShrinkLabels with "label >= position" in place of "label > position"
ShrinkLabels_ge(ls, position, by) ==
    [k \in DOMAIN ls |-> IF ls[k] >= position THEN ls[k] - by ELSE ls[k]]

\* {k: v - by for k, v in labels.items() if v > position}; labels.update(...)
ShrinkLabels(ls, position, by) ==
    [k \in DOMAIN ls |-> IF ls[k] > position THEN ls[k] - by ELSE ls[k]]

\* items = [parse_item(tokens) for tokens in tokens]
RECURSIVE ParseLoop(_, _, _)
ParseLoop(source, i, out) ==
    IF i > Len(source) THEN Result(out, EmptyMap, EmptyMap, NoErr)
    ELSE LET r == parse_item(source[i], i)
         IN  IF r.err # NoErr THEN Result(out, EmptyMap, EmptyMap, r.err)
             ELSE ParseLoop(source, i + 1, Append(out, r.item))

resolve_constants(all, cs0) ==
    LET RECURSIVE ConstantsLoop(_, _, _, _)
        ConstantsLoop(its, i, out, cs) ==
            IF i > Len(its) THEN Result(out, cs, EmptyMap, NoErr)
            ELSE LET item == its[i]
                 IN  IF item.t # "Constant" THEN ConstantsLoop(its, i + 1, Append(out, item), cs)
                     ELSE IF item.imm.op # "arith"
                          THEN Result(out, cs, EmptyMap, AssemblerError(item.line))
                     ELSE IF lookup_register(item.args[1], FALSE).ok   \* item.name in REGISTERS
                          THEN Result(out, cs, EmptyMap, AssemblerError(item.line))
                     ELSE IF is_int(item.args[1])
                          THEN Result(out, cs, EmptyMap, AssemblerError(item.line))
                     ELSE LET value == Eval(item.imm, 0, ChainMap(cs, REGISTERS))
                          IN  IF ~value.ok THEN Result(out, cs, EmptyMap, AssemblerError(item.line))
                              ELSE ConstantsLoop(its, i + 1, out,
                                                 (item.name :> value.v) @@ cs)
    IN  ConstantsLoop(all, 1, <<>>, cs0)

resolve_labels(all, ls0) ==
    LET RECURSIVE LabelsLoop(_, _, _, _, _)
        LabelsLoop(its, i, out, ls, position) ==
            IF i > Len(its) THEN Result(out, EmptyMap, ls, NoErr)
            ELSE LET item == its[i]
                 IN  IF item.t # "Label"
                     THEN LabelsLoop(its, i + 1, Append(out, item), ls, position + Size(item))
                     ELSE LabelsLoop(its, i + 1, out, (item.name :> position) @@ ls, position)
    IN  LabelsLoop(all, 1, <<>>, ls0, 0)

\* the register fields of an item of class t
RegFields(t) ==
    CASE t = "R" -> {"rd", "rs1", "rs2"}
      [] t \in {"I", "CL"} -> {"rd", "rs1"}
      [] t \in {"S", "B", "CS"} -> {"rs1", "rs2"}
      [] t \in {"U", "J", "CIW"} -> {"rd"}
      [] t \in {"CR", "CA"} -> {"rd_rs1", "rs2"}
      [] t \in {"CRJ", "CI"} -> {"rd_rs1"}
      [] t = "CSS" -> {"rs2"}
      [] t = "CB" -> {"rs1"}
      [] OTHER -> {}

\* "if value not in constants: continue; reg = constants[value]"
AliasOf(f, item, cs) ==
    IF f \in RegFields(item.t) /\ ~item[f].num /\ item[f].id \in DOMAIN cs
    THEN N(cs[item[f].id])
    ELSE item[f]

resolve_register_aliases(its, cs) ==
    [i \in 1..Len(its) |->
        [its[i] EXCEPT !.rd = AliasOf("rd", its[i], cs),
                       !.rs1 = AliasOf("rs1", its[i], cs),
                       !.rs2 = AliasOf("rs2", its[i], cs),
                       !.rd_rs1 = AliasOf("rd_rs1", its[i], cs)]]

(***************************************************************************)
(* transform_compressible: the predicates, the criteria table (in the      *)
(* order of the dict) and the pass.                                        *)
(***************************************************************************)
Pred(k, f, g, a, b, n) == [k |-> k, f |-> f, g |-> g, a |-> a, b |-> b, n |-> n]
NameEquals(value) == Pred("NameEquals", "", "", 0, 0, value)
RegEquals(name, value) == Pred("RegEquals", name, "", value, 0, "")
RegNotEquals(name, value) == Pred("RegNotEquals", name, "", value, 0, "")
RegBetween(name, lo, hi) == Pred("RegBetween", name, "", lo, hi, "")
RegsMatch(a, b) == Pred("RegsMatch", a, b, 0, 0, "")
ImmEquals(value) == Pred("ImmEquals", "", "", value, 0, "")
ImmNotEquals(value) == Pred("ImmNotEquals", "", "", value, 0, "")
ImmDivisibleBy(value) == Pred("ImmDivisibleBy", "", "", value, 0, "")

ImmBetween(lo, hi) == Pred("ImmBetween", "", "", lo, hi, "")

Truth(b) == IF b THEN "T" ELSE "F"

\* pred(item, position, env): "T", "F", or the exception the predicate raises
\* (lookup_register's ValueError, Expr.eval's AssemblerError)
PredEval(pred, i, p, e) ==
    CASE pred.k = "NameEquals" -> Truth(i.name = pred.n)
      [] pred.k \in {"RegEquals", "RegNotEquals", "RegBetween"} ->
            LET reg == lookup_register(i[pred.f], FALSE)
            IN  IF ~reg.ok THEN "ValueError"
                ELSE CASE pred.k = "RegEquals" -> Truth(reg.v = pred.a)
                       [] pred.k = "RegNotEquals" -> Truth(reg.v # pred.a)
                       [] OTHER -> Truth(reg.v >= pred.a /\ reg.v <= pred.b)
      [] pred.k = "RegsMatch" ->
            LET reg_a == lookup_register(i[pred.f], FALSE)
                reg_b == lookup_register(i[pred.g], FALSE)
            IN  IF ~reg_a.ok \/ ~reg_b.ok THEN "ValueError"
                ELSE Truth(reg_a.v = reg_b.v)
      [] OTHER ->
            LET imm == Eval(i.imm, p, e)
            IN  IF ~imm.ok THEN "AssemblerError"
                ELSE CASE pred.k = "ImmEquals" -> Truth(imm.v = pred.a)
                       [] pred.k = "ImmNotEquals" -> Truth(imm.v # pred.a)
                       [] pred.k = "ImmDivisibleBy" -> Truth(imm.v % pred.a = 0)
                       [] OTHER -> Truth(imm.v >= pred.a /\ imm.v <= pred.b)

Rule(name, preds) == [name |-> name, preds |-> preds]

criteria == <<
    Rule("c.addi16sp", <<NameEquals("addi"), RegEquals("rd", 2), RegEquals("rs1", 2),
                         ImmNotEquals(0), ImmDivisibleBy(16), ImmBetween(-512, 511)>>),
    Rule("c.addi4spn", <<NameEquals("addi"), RegBetween("rd", 8, 15), RegEquals("rs1", 2),
                         ImmNotEquals(0), ImmDivisibleBy(4), ImmBetween(0, 1023)>>),
    Rule("c.lw", <<NameEquals("lw"), RegBetween("rd", 8, 15), RegBetween("rs1", 8, 15),
                   ImmDivisibleBy(4), ImmBetween(0, 127)>>),
    Rule("c.sw", <<NameEquals("sw"), RegBetween("rs1", 8, 15), RegBetween("rs2", 8, 15),
                   ImmDivisibleBy(4), ImmBetween(0, 127)>>),
    Rule("c.nop", <<NameEquals("addi"), RegEquals("rd", 0), RegEquals("rs1", 0),
                    ImmEquals(0)>>),
    Rule("c.addi", <<NameEquals("addi"), RegNotEquals("rd", 0), RegNotEquals("rs1", 0),
                     RegsMatch("rd", "rs1"), ImmNotEquals(0), ImmBetween(-32, 31)>>),
    Rule("c.jal", <<NameEquals("jal"), RegEquals("rd", 1), ImmDivisibleBy(2),
                    ImmBetween(-2048, 2047)>>),
    Rule("c.li", <<NameEquals("addi"), RegNotEquals("rd", 0), RegEquals("rs1", 0),
                   ImmBetween(-32, 31)>>),
    Rule("c.lui", <<NameEquals("lui"), RegNotEquals("rd", 0), RegNotEquals("rd", 2),
                    ImmNotEquals(0), ImmBetween(-32, 31)>>),
    Rule("c.lui_alt", <<NameEquals("lui"), RegNotEquals("rd", 0), RegNotEquals("rd", 2),
                        ImmNotEquals(0), ImmBetween(1048544, 1048575)>>),
    Rule("c.srli", <<NameEquals("srli"), RegBetween("rd", 8, 15), RegBetween("rs1", 8, 15),
                     RegsMatch("rd", "rs1"), RegNotEquals("rs2", 0),
                     RegBetween("rs2", 0, 31)>>),
    Rule("c.srai", <<NameEquals("srai"), RegBetween("rd", 8, 15), RegBetween("rs1", 8, 15),
                     RegsMatch("rd", "rs1"), RegNotEquals("rs2", 0),
                     RegBetween("rs2", 0, 31)>>),
    Rule("c.andi", <<NameEquals("andi"), RegBetween("rd", 8, 15), RegBetween("rs1", 8, 15),
                     RegsMatch("rd", "rs1"), ImmBetween(-32, 31)>>),
    Rule("c.sub", <<NameEquals("sub"), RegBetween("rd", 8, 15), RegBetween("rs1", 8, 15),
                    RegsMatch("rd", "rs1"), RegBetween("rs2", 8, 15)>>),
    Rule("c.xor", <<NameEquals("xor"), RegBetween("rd", 8, 15), RegBetween("rs1", 8, 15),
                    RegsMatch("rd", "rs1"), RegBetween("rs2", 8, 15)>>),
    Rule("c.or", <<NameEquals("or"), RegBetween("rd", 8, 15), RegBetween("rs1", 8, 15),
                   RegsMatch("rd", "rs1"), RegBetween("rs2", 8, 15)>>),
    Rule("c.and", <<NameEquals("and"), RegBetween("rd", 8, 15), RegBetween("rs1", 8, 15),
                    RegsMatch("rd", "rs1"), RegBetween("rs2", 8, 15)>>),
    Rule("c.j", <<NameEquals("jal"), RegEquals("rd", 0), ImmDivisibleBy(2),
                  ImmBetween(-2048, 2047)>>),
    Rule("c.beqz", <<NameEquals("beq"), RegBetween("rs1", 8, 15), RegEquals("rs2", 0),
                     ImmDivisibleBy(2), ImmBetween(-256, 255)>>),
    Rule("c.bnez", <<NameEquals("bne"), RegBetween("rs1", 8, 15), RegEquals("rs2", 0),
                     ImmDivisibleBy(2), ImmBetween(-256, 255)>>),
    Rule("c.slli", <<NameEquals("slli"), RegNotEquals("rd", 0), RegNotEquals("rs1", 0),
                     RegsMatch("rd", "rs1"), RegNotEquals("rs2", 0),
                     RegBetween("rs2", 0, 31)>>),
    Rule("c.lwsp", <<NameEquals("lw"), RegNotEquals("rd", 0), RegEquals("rs1", 2),
                     ImmDivisibleBy(4), ImmBetween(0, 255)>>),
    Rule("c.jr", <<NameEquals("jalr"), RegEquals("rd", 0), RegNotEquals("rs1", 0),
                   ImmEquals(0)>>),
    Rule("c.mv", <<NameEquals("add"), RegNotEquals("rd", 0), RegEquals("rs1", 0),
                   RegNotEquals("rs2", 0)>>),
    Rule("c.ebreak", <<NameEquals("ebreak")>>),
    Rule("c.add", <<NameEquals("add"), RegNotEquals("rd", 0), RegNotEquals("rs1", 0),
                    RegsMatch("rd", "rs1"), RegNotEquals("rs2", 0)>>),
    Rule("c.jalr", <<NameEquals("jalr"), RegEquals("rd", 1), RegNotEquals("rs1", 0),
                     ImmEquals(0)>>),
    Rule("c.swsp", <<NameEquals("sw"), RegEquals("rs1", 2), ImmDivisibleBy(4),
                     ImmBetween(0, 255)>>) >>

\* all(pred(item, position, env) for pred in preds), left to right
RECURSIVE AllPreds(_, _, _, _, _)
AllPreds(preds, j, i, p, e) ==
    IF j > Len(preds) THEN "T"
    ELSE LET r == PredEval(preds[j], i, p, e)
         IN  IF r = "T" THEN AllPreds(preds, j + 1, i, p, e) ELSE r

\* the last rule of the table whose predicates all hold, in place of the first
RECURSIVE FirstMatch_last(_, _, _, _, _)
FirstMatch_last(table, k, i, p, e) ==
    IF k > Len(table) THEN [err |-> "", name |-> ""]
    ELSE LET rest == FirstMatch_last(table, k + 1, i, p, e)
             r == AllPreds(table[k].preds, 1, i, p, e)
         IN  IF rest.name # "" \/ r = "F" THEN rest
             ELSE IF r = "T" THEN [err |-> "", name |-> table[k].name]
             ELSE [err |-> r, name |-> ""]

\* the first rule of the table whose predicates all hold ("" when none does),
\* or the exception met on the way
RECURSIVE FirstMatch(_, _, _, _, _)
FirstMatch(table, k, i, p, e) ==
    IF k > Len(table) THEN [err |-> "", name |-> ""]
    ELSE LET r == AllPreds(table[k].preds, 1, i, p, e)
         IN  CASE r = "T" -> [err |-> "", name |-> table[k].name]
               [] r = "F" -> FirstMatch(table, k + 1, i, p, e)
               [] OTHER -> [err |-> r, name |-> ""]

\* "swap out the instruction for its compressed counterpart"
CompressedItem(item, compressed) ==
    LET ci(t, name, attrs) ==
            CompressedInstruction([t |-> t, line |-> item.line, name |-> name] @@ attrs)
    IN  CASE compressed = "c.addi4spn" ->
                ci("CIW", compressed, [rd |-> item.rd, imm |-> item.imm])
          [] compressed = "c.lw" ->
                ci("CL", compressed, [rd |-> item.rd, rs1 |-> item.rs1, imm |-> item.imm])
          [] compressed = "c.sw" ->
                ci("CS", compressed, [rs1 |-> item.rs1, rs2 |-> item.rs2, imm |-> item.imm])
          [] compressed = "c.nop" -> ci("CIN", compressed, <<>>)
          [] compressed \in {"c.addi", "c.li", "c.lwsp"} ->
                ci("CI", compressed, [rd_rs1 |-> item.rd, imm |-> item.imm])
          [] compressed \in {"c.jal", "c.j"} -> ci("CJ", compressed, [imm |-> item.imm])
          [] compressed \in {"c.lui", "c.lui_alt"} ->
                ci("CI", "c.lui", [rd_rs1 |-> item.rd, imm |-> item.imm])
          [] compressed = "c.addi16sp" -> ci("CIA", compressed, [imm |-> item.imm])
          [] compressed \in {"c.srli", "c.srai"} ->
                ci("CB", compressed, [rs1 |-> item.rd, imm |-> Arithmetic(item.rs2)])
          [] compressed = "c.andi" ->
                ci("CB", compressed, [rs1 |-> item.rd, imm |-> item.imm])
          [] compressed \in {"c.sub", "c.xor", "c.or", "c.and"} ->
                ci("CA", compressed, [rd_rs1 |-> item.rd, rs2 |-> item.rs2])
          [] compressed \in {"c.beqz", "c.bnez"} ->
                ci("CB", compressed, [rs1 |-> item.rs1, imm |-> item.imm])
          [] compressed = "c.slli" ->
                ci("CI", compressed, [rd_rs1 |-> item.rd, imm |-> Arithmetic(item.rs2)])
          [] compressed \in {"c.jr", "c.jalr"} ->
                ci("CRJ", compressed,
                   [rd_rs1 |-> item.rs1, is_auipc_jump |-> item.is_auipc_jump])
          [] compressed \in {"c.mv", "c.add"} ->
                ci("CR", compressed, [rd_rs1 |-> item.rd, rs2 |-> item.rs2])
          [] compressed = "c.ebreak" -> ci("CRE", compressed, <<>>)
          [] OTHER -> ci("CSS", compressed, [rs2 |-> item.rs2, imm |-> item.imm])  \* c.swsp

transform_compressible(all, cs0, ls0) ==
    LET RECURSIVE CompressLoop(_, _, _, _, _, _)
        CompressLoop(its, i, out, cs, ls, position) ==
            IF i > Len(its) THEN Result(out, cs, ls, NoErr)
            ELSE LET item == its[i]
                 IN  IF ~IsInstruction(item) \/ item.t = "Pseudo"
                     THEN CompressLoop(its, i + 1, Append(out, item), cs, ls, position + Size(item))
                     ELSE LET m == FirstMatch(criteria, 1, item, position, ChainMap(cs, ls))
                          IN  CASE m.err = "AssemblerError" ->
                                        Result(out, cs, ls, AssemblerError(item.line))
                                [] m.err = "ValueError" -> Result(out, cs, ls, ValueError)
                                [] m.name # "" ->
                                        LET inst == CompressedItem(item, m.name)
                                        IN  CompressLoop(its, i + 1, Append(out, inst), cs,
                                                         ShrinkLabels(ls, position, 2),
                                                         position + Size(inst))
                                [] OTHER ->
                                        CompressLoop(its, i + 1, Append(out, item), cs, ls,
                                                     position + Size(item))
    IN  CompressLoop(all, 1, <<>>, cs0, ls0, 0)

(***************************************************************************)
(* transform_pseudo_instructions.                                          *)
(***************************************************************************)
\* the number of arguments the expansion of a pseudo-instruction unpacks
\* (li unpacks "rd, *imm"; nop and ret unpack nothing)
PseudoArity(name) ==
    CASE name \in {"nop", "ret"} -> 0
      [] name \in {"j", "jal", "jr", "jalr", "call", "tail"} -> 1
      [] name \in {"bgt", "ble", "bgtu", "bleu"} -> 3
      [] OTHER -> 2

\* the instruction of a pseudo-instruction that expands into one instruction
\* whatever the position
PseudoSimple(item) ==
    LET l == item.line
        n == item.name
        a == item.args
        zero == Arithmetic(N(0))
    IN  CASE n = "nop" -> ITypeInstruction(l, "addi", Id("x0"), Id("x0"), zero, FALSE)
          [] n = "mv" -> ITypeInstruction(l, "addi", a[1], a[2], zero, FALSE)
          [] n = "not" -> ITypeInstruction(l, "xori", a[1], a[2], Arithmetic(N(-1)), FALSE)
          [] n = "neg" -> RTypeInstruction(l, "sub", a[1], Id("x0"), a[2])
          [] n = "seqz" -> ITypeInstruction(l, "sltiu", a[1], a[2], Arithmetic(N(1)), FALSE)
          [] n = "snez" -> RTypeInstruction(l, "sltu", a[1], Id("x0"), a[2])
          [] n = "sltz" -> RTypeInstruction(l, "slt", a[1], a[2], Id("x0"))
          [] n = "sgtz" -> RTypeInstruction(l, "slt", a[1], Id("x0"), a[2])
          [] n = "beqz" -> BTypeInstruction(l, "beq", a[1], Id("x0"), Offset(a[2].id))
          [] n = "bnez" -> BTypeInstruction(l, "bne", a[1], Id("x0"), Offset(a[2].id))
          [] n = "bgez" -> BTypeInstruction(l, "bge", a[1], Id("x0"), Offset(a[2].id))
          [] n = "bltz" -> BTypeInstruction(l, "blt", a[1], Id("x0"), Offset(a[2].id))
          [] n = "blez" -> BTypeInstruction(l, "bge", Id("x0"), a[1], Offset(a[2].id))
          [] n = "bgtz" -> BTypeInstruction(l, "blt", Id("x0"), a[1], Offset(a[2].id))
          [] n = "bgt" -> BTypeInstruction(l, "blt", a[2], a[1], Offset(a[3].id))
          [] n = "ble" -> BTypeInstruction(l, "bge", a[2], a[1], Offset(a[3].id))
          [] n = "bgtu" -> BTypeInstruction(l, "bltu", a[2], a[1], Offset(a[3].id))
          [] n = "bleu" -> BTypeInstruction(l, "bgeu", a[2], a[1], Offset(a[3].id))
          [] n = "j" -> JTypeInstruction(l, "jal", Id("x0"), Offset(a[1].id))
          [] n = "jal" -> JTypeInstruction(l, "jal", Id("x1"), Offset(a[1].id))
          [] n = "jr" -> ITypeInstruction(l, "jalr", Id("x0"), a[1], zero, FALSE)
          [] n = "jalr" -> ITypeInstruction(l, "jalr", Id("x1"), a[1], zero, FALSE)
          [] OTHER -> ITypeInstruction(l, "jalr", Id("x0"), Id("x1"), zero, FALSE)   \* ret

\* an expansion of li that puts the addi before the lui
ExpandLi_swapped(item, value) ==
    LET l == item.line
        rd == item.args[1]
        imm == parse_immediate(item.args[2])
    IN  IF value >= -2048 /\ value <= 2047
        THEN [insts |-> <<ITypeInstruction(l, "addi", rd, Id("x0"), Lo(imm), FALSE)>>,
              shrink |-> TRUE]
        ELSE IF value % 4096 = 0
        THEN [insts |-> <<UTypeInstruction(l, "lui", rd, Hi(imm))>>, shrink |-> TRUE]
        ELSE [insts |-> <<ITypeInstruction(l, "addi", rd, rd, Lo(imm), FALSE),
                          UTypeInstruction(l, "lui", rd, Hi(imm))>>,
              shrink |-> FALSE]

\* the expansion of li at a position: the instructions and whether the
\* labels behind it shrink by 4
ExpandLi(item, value) ==
    LET l == item.line
        rd == item.args[1]
        imm == parse_immediate(item.args[2])
    IN  IF value >= -2048 /\ value <= 2047
        THEN [insts |-> <<ITypeInstruction(l, "addi", rd, Id("x0"), Lo(imm), FALSE)>>,
              shrink |-> TRUE]
        ELSE IF value % 4096 = 0
        THEN [insts |-> <<UTypeInstruction(l, "lui", rd, Hi(imm))>>, shrink |-> TRUE]
        ELSE [insts |-> <<UTypeInstruction(l, "lui", rd, Hi(imm)),
                          ITypeInstruction(l, "addi", rd, rd, Lo(imm), FALSE)>>,
              shrink |-> FALSE]

\* the expansion of call (link x1, through x1) and tail (link x0, through x6)
ExpandJump(item, value) ==
    LET l == item.line
        imm == Offset(item.args[1].id)
        link == IF item.name = "call" THEN Id("x1") ELSE Id("x0")
        via == IF item.name = "call" THEN Id("x1") ELSE Id("x6")
    IN  IF value >= -1048576 /\ value <= 1048575
        THEN [insts |-> <<JTypeInstruction(l, "jal", link, Lo(imm))>>, shrink |-> TRUE]
        ELSE [insts |-> <<UTypeInstruction(l, "auipc", via, Hi(imm)),
                          ITypeInstruction(l, "jalr", link, via, Lo(imm), TRUE)>>,
              shrink |-> FALSE]

\* the value the expansion of li, call or tail looks at:
\* c_int32(imm.eval(position, env, line)).value
PseudoValue(item, position, env) ==
    LET imm == IF item.name = "li" THEN parse_immediate(item.args[2])
               ELSE Offset(item.args[1].id)
        value == Eval(imm, position, env)
    IN  IF ~value.ok THEN EvalErr ELSE EvalOk(c_int32(value.v))

transform_pseudo_instructions(all, cs0, ls0) ==
    LET RECURSIVE PseudoLoop(_, _, _, _, _, _)
        PseudoLoop(its, i, out, cs, ls, position) ==
            IF i > Len(its) THEN Result(out, cs, ls, NoErr)
            ELSE LET item == its[i]
                 IN  IF item.t # "Pseudo"
                     THEN PseudoLoop(its, i + 1, Append(out, item), cs, ls, position + Size(item))
                     ELSE IF Table(item.name) # "Pseudo" /\ item.name \notin {"jal", "jalr"}
                          THEN Result(out, cs, ls, AssemblerError(item.line))   \* no translation
                     ELSE IF item.name = "li" /\ Len(item.args) = 0 THEN Result(out, cs, ls, ValueError)
                     ELSE IF item.name = "li" /\ Len(item.args) = 1
                          THEN Result(out, cs, ls, AssemblerError(item.line))
                     ELSE IF item.name \notin {"li", "nop", "ret"}
                             /\ Len(item.args) # PseudoArity(item.name)
                          THEN Result(out, cs, ls, ValueError)
                     ELSE IF item.name \in {"li", "call", "tail"}
                          THEN LET value == PseudoValue(item, position, ChainMap(cs, ls))
                               IN  IF ~value.ok THEN Result(out, cs, ls, AssemblerError(item.line))
                                   ELSE LET x == IF item.name = "li" THEN ExpandLi(item, value.v)
                                                 ELSE ExpandJump(item, value.v)
                                        IN  PseudoLoop(its, i + 1, out \o x.insts, cs,
                                                       IF x.shrink THEN ShrinkLabels(ls, position, 4)
                                                       ELSE ls,
                                                       position + 4 * Len(x.insts))
                     ELSE LET inst == PseudoSimple(item)
                          IN  PseudoLoop(its, i + 1, Append(out, inst), cs, ls, position + Size(inst))
    IN  PseudoLoop(all, 1, <<>>, cs0, ls0, 0)

(***************************************************************************)
(* resolve_aligns.  The pass result carries, for every Align met, what the *)
(* pass did with it (log): the position, the alignment, the padding, the   *)
(* labels before and after, and the items emitted for it.                  *)
(***************************************************************************)
\* resolution_size without the "padding == alignment" case
resolution_size_raw(alignment, position) == alignment - (position % alignment)

\* Align.resolution_size(position)
resolution_size(alignment, position) ==
    LET \* Python's %: the result has the sign of the divisor
        mod == IF alignment > 0 THEN position % alignment
               ELSE 0 - ((0 - position) % (0 - alignment))
        padding == alignment - mod
    IN  IF padding = alignment THEN 0 ELSE padding

resolve_aligns(all, ls0) ==
    LET RECURSIVE AlignsLoop(_, _, _, _, _, _)
        AlignsLoop(its, i, out, ls, position, log) ==
            IF i > Len(its) THEN [Result(out, EmptyMap, ls, NoErr) EXCEPT !.log = log]
            ELSE LET item == its[i]
                 IN  IF item.t # "Align"
                     THEN AlignsLoop(its, i + 1, Append(out, item), ls, position + Size(item), log)
                     ELSE IF item.n = 0
                          THEN [Result(out, EmptyMap, ls, Raise("ZeroDivisionError", 0)) EXCEPT !.log = log]
                     ELSE LET padding == resolution_size(item.n, position)
                              shrink == Size(item) - padding
                              new_labels == ShrinkLabels(ls, position, shrink)
                              new_out == IF padding = 0 THEN out
                                         ELSE Append(out, Blob(item.line, Chunk(Zeros(padding), 0)))
                              entry == [position |-> position, alignment |-> item.n,
                                        padding |-> padding, before |-> ls, after |-> new_labels,
                                        emitted |-> SubSeq(new_out, Len(out) + 1, Len(new_out)),
                                        next |-> position + padding]
                          IN  AlignsLoop(its, i + 1, new_out, new_labels, position + padding,
                                         Append(log, entry))
    IN  AlignsLoop(all, 1, <<>>, ls0, 0, <<>>)

(***************************************************************************)
(* resolve_immediates, resolve_instructions, resolve_sequences,            *)
(* resolve_include_bytes and resolve_blobs.                                *)
(***************************************************************************)
\* the classes with an imm attribute
ImmTypes == {"I", "S", "B", "U", "J", "CI", "CIA", "CSS", "CIW", "CL", "CS", "CB", "CJ"}

resolve_immediates(all, cs0, ls0) ==
    LET RECURSIVE ImmediatesLoop(_, _, _, _, _, _)
        ImmediatesLoop(its, i, out, cs, ls, position) ==
            IF i > Len(its) THEN Result(out, cs, ls, NoErr)
            ELSE LET item == its[i]
                 IN  IF item.t \notin ImmTypes
                     THEN ImmediatesLoop(its, i + 1, Append(out, item), cs, ls, position + Size(item))
                     ELSE LET imm == Eval(item.imm, position, ChainMap(cs, ls))
                              adj == IF item.is_auipc_jump
                                     THEN (IF IsCompressed(item) THEN 2 ELSE 4)
                                     ELSE 0
                              new_item == [item EXCEPT !.imm = Resolved(imm.v + adj)]
                          IN  IF ~imm.ok THEN Result(out, cs, ls, AssemblerError(item.line))
                              ELSE ImmediatesLoop(its, i + 1, Append(out, new_item), cs, ls,
                                                  position + Size(new_item))
    IN  ImmediatesLoop(all, 1, <<>>, cs0, ls0, 0)

resolve_instructions(all) ==
    LET RECURSIVE InstructionsLoop(_, _, _)
        InstructionsLoop(its, i, out) ==
            IF i > Len(its) THEN Result(out, EmptyMap, EmptyMap, NoErr)
            ELSE LET item == its[i]
                 IN  IF ~IsInstruction(item) THEN InstructionsLoop(its, i + 1, Append(out, item))
                     ELSE LET code == Encode(item)
                              nbytes == IF IsCompressed(item) THEN 2 ELSE 4
                          IN  IF ~code.ok
                              THEN Result(out, EmptyMap, EmptyMap, AssemblerError(item.line))
                              ELSE InstructionsLoop(its, i + 1,
                                       Append(out, Blob(item.line, Chunk(Pack(code.code, nbytes), 0))))
    IN  InstructionsLoop(all, 1, <<>>)

\* the exception of "int(value, base=0)" and of struct.pack('<B' / '<b', value)
\* over the values of a bytes sequence ("" when there is none)
SequenceError(values) ==
    IF values = <<>> THEN ""
    ELSE IF \E k \in 1..Len(values) : ~is_int(values[k]) THEN "ValueError"
    ELSE IF \E k \in 1..Len(values) : values[k].v > 255 \/ values[k].v < -128 THEN "struct.error"
    ELSE ""

resolve_sequences(all) ==
    LET RECURSIVE SequencesLoop(_, _, _)
        SequencesLoop(its, i, out) ==
            IF i > Len(its) THEN Result(out, EmptyMap, EmptyMap, NoErr)
            ELSE LET item == its[i]
                 IN  IF item.t # "Sequence" THEN SequencesLoop(its, i + 1, Append(out, item))
                     ELSE IF SequenceError(item.vals) # ""
                          THEN Result(out, EmptyMap, EmptyMap, Raise(SequenceError(item.vals), 0))
                     ELSE SequencesLoop(its, i + 1,
                              Append(out, Blob(item.line,
                                  Chunk([k \in 1..Len(item.vals) |-> item.vals[k].v % 256], 0))))
    IN  SequencesLoop(all, 1, <<>>)

\* the content of an included file is opaque: a run of fsize bytes
resolve_include_bytes(its) ==
    [i \in 1..Len(its) |->
        IF its[i].t = "IncludeBytes" THEN Blob(its[i].line, Chunk(<<>>, its[i].n))
        ELSE its[i]]

\* the output: the bytes in order; a run of n bytes of an included file is
\* the one entry -n
resolve_blobs(all) ==
    LET RECURSIVE BlobsLoop(_, _, _)
        BlobsLoop(its, i, output) ==
            IF i > Len(its) THEN [output |-> output, err |-> NoErr]
            ELSE IF its[i].t # "Blob" THEN [output |-> output, err |-> ValueError]
            ELSE BlobsLoop(its, i + 1,
                     output \o its[i].data.b \o (IF its[i].data.f > 0 THEN <<0 - its[i].data.f>> ELSE <<>>))
    IN  BlobsLoop(all, 1, <<>>)

(***************************************************************************)
(* assemble(): the passes in order.  A run is the record of the local      *)
(* variables of assemble(); Step runs the pass the run is at.              *)
(***************************************************************************)
\* a run that starts with a label left over in the labels map
Start_stale == [pc |-> "parse", items |-> <<>>, constants |-> EmptyMap,
                labels |-> [n \in {"stale"} |-> 0], alog |-> <<>>, err |-> NoErr,
                program |-> <<>>]

Start == [pc |-> "parse", items |-> <<>>, constants |-> EmptyMap, labels |-> EmptyMap,
          alog |-> <<>>, err |-> NoErr, program |-> <<>>]

Failed(m, e) == [m EXCEPT !.pc = "failed", !.err = e]

\* the state after a pass that returned r (or raised r.err)
After(m, r, nextpc) ==
    IF r.err # NoErr THEN Failed(m, r.err)
    ELSE [m EXCEPT !.pc = nextpc, !.items = r.items]

\* read_lines, lex_tokens and parse_item over the source: every line is read before
\* the first is parsed.  An "include" line names a file that no directory holds (the
\* source assembled is the only source file there is), and read_lines raises on the
\* first of them.
StepParse(m, source) ==
    LET unread == {i \in 1..Len(source) : source[i].kind = "op" /\ source[i].head = "include"}
    IN  IF unread # {} THEN Failed(m, AssemblerError(CHOOSE i \in unread : \A j \in unread : i <= j))
        ELSE After(m, ParseLoop(source, 1, <<>>), "resolve_constants")

StepConstants(m) ==
    LET r == resolve_constants(m.items, m.constants)
    IN  [After(m, r, "resolve_labels") EXCEPT !.constants = r.constants]

StepLabels(m) ==
    LET r == resolve_labels(m.items, m.labels)
    IN  [After(m, r, "resolve_register_aliases") EXCEPT !.labels = r.labels]

StepAliases(m) ==
    [m EXCEPT !.pc = IF m.pc = "resolve_register_aliases" THEN "transform_compressible"
                     ELSE "transform_compressible_again",
              !.items = resolve_register_aliases(m.items, m.constants)]

\* "if compress: items = transform_compressible(items, constants, labels)"
StepCompressible(m, comp) ==
    LET nextpc == IF m.pc = "transform_compressible" THEN "transform_pseudo_instructions"
                  ELSE "resolve_aligns"
        r == transform_compressible(m.items, m.constants, m.labels)
    IN  IF ~comp THEN [m EXCEPT !.pc = nextpc]
        ELSE [After(m, r, nextpc) EXCEPT !.labels = r.labels]

StepPseudo(m) ==
    LET r == transform_pseudo_instructions(m.items, m.constants, m.labels)
    IN  [After(m, r, "resolve_register_aliases_again") EXCEPT !.labels = r.labels]

StepAligns(m) ==
    LET r == resolve_aligns(m.items, m.labels)
    IN  [After(m, r, "resolve_immediates") EXCEPT !.labels = r.labels, !.alog = r.log]

StepImmediates(m) ==
    After(m, resolve_immediates(m.items, m.constants, m.labels), "resolve_instructions")

StepInstructions(m) == After(m, resolve_instructions(m.items), "resolve_sequences")

StepSequences(m) == After(m, resolve_sequences(m.items), "resolve_include_bytes")

StepIncludeBytes(m) ==
    [m EXCEPT !.pc = "resolve_blobs", !.items = resolve_include_bytes(m.items)]

StepBlobs(m) ==
    LET r == resolve_blobs(m.items)
    IN  IF r.err # NoErr THEN Failed(m, r.err)
        ELSE [m EXCEPT !.pc = "done", !.program = r.output]

Step(m, source, comp) ==
    CASE m.pc = "parse" -> StepParse(m, source)
      [] m.pc = "resolve_constants" -> StepConstants(m)
      [] m.pc = "resolve_labels" -> StepLabels(m)
      [] m.pc \in {"resolve_register_aliases", "resolve_register_aliases_again"} ->
            StepAliases(m)
      [] m.pc \in {"transform_compressible", "transform_compressible_again"} ->
            StepCompressible(m, comp)
      [] m.pc = "transform_pseudo_instructions" -> StepPseudo(m)
      [] m.pc = "resolve_aligns" -> StepAligns(m)
      [] m.pc = "resolve_immediates" -> StepImmediates(m)
      [] m.pc = "resolve_instructions" -> StepInstructions(m)
      [] m.pc = "resolve_sequences" -> StepSequences(m)
      [] m.pc = "resolve_include_bytes" -> StepIncludeBytes(m)
      [] m.pc = "resolve_blobs" -> StepBlobs(m)
      [] OTHER -> m

\* assemble(source, compress=comp), run to its end
RECURSIVE Run(_, _, _)
Run(m, source, comp) ==
    IF m.pc \in {"done", "failed"} THEN m ELSE Run(Step(m, source, comp), source, comp)

assemble(source, comp) == Run(Start, source, comp)

(***************************************************************************)
(* The state machine: one action per pass.                                 *)
(***************************************************************************)
Cur == [pc |-> pc, items |-> items, constants |-> constants, labels |-> labels,
        alog |-> alog, err |-> err, program |-> program]

Move(m) ==
    /\ pc' = m.pc
    /\ items' = m.items
    /\ constants' = m.constants
    /\ labels' = m.labels
    /\ alog' = m.alog
    /\ err' = m.err
    /\ program' = m.program
    /\ UNCHANGED <<src, compress, rin, rout>>

Parse == pc = "parse" /\ \E m \in {StepParse(Cur, src)} : Move(m)
ResolveConstants == pc = "resolve_constants" /\ \E m \in {StepConstants(Cur)} : Move(m)
ResolveLabels == pc = "resolve_labels" /\ \E m \in {StepLabels(Cur)} : Move(m)
ResolveRegisterAliases ==
    /\ pc \in {"resolve_register_aliases", "resolve_register_aliases_again"}
    /\ \E m \in {StepAliases(Cur)} : Move(m)
TransformCompressible ==
    /\ pc \in {"transform_compressible", "transform_compressible_again"}
    /\ \E m \in {StepCompressible(Cur, compress)} : Move(m)
TransformPseudoInstructions ==
    pc = "transform_pseudo_instructions" /\ \E m \in {StepPseudo(Cur)} : Move(m)
ResolveAligns == pc = "resolve_aligns" /\ \E m \in {StepAligns(Cur)} : Move(m)
ResolveImmediates == pc = "resolve_immediates" /\ \E m \in {StepImmediates(Cur)} : Move(m)
ResolveInstructions == pc = "resolve_instructions" /\ \E m \in {StepInstructions(Cur)} : Move(m)
ResolveSequences == pc = "resolve_sequences" /\ \E m \in {StepSequences(Cur)} : Move(m)
ResolveIncludeBytes == pc = "resolve_include_bytes" /\ \E m \in {StepIncludeBytes(Cur)} : Move(m)
ResolveBlobs == pc = "resolve_blobs" /\ \E m \in {StepBlobs(Cur)} : Move(m)

Next ==
    \/ Parse
    \/ ResolveConstants
    \/ ResolveLabels
    \/ ResolveRegisterAliases
    \/ TransformCompressible
    \/ TransformPseudoInstructions
    \/ ResolveAligns
    \/ ResolveImmediates
    \/ ResolveInstructions
    \/ ResolveSequences
    \/ ResolveIncludeBytes
    \/ ResolveBlobs

\* all programs of at most n statements over an alphabet
Programs(alphabet, n) == UNION {[1..k -> alphabet] : k \in 0..n}

InitWith(programs) ==
    /\ src \in programs
    /\ compress \in BOOLEAN
    /\ pc = "parse"
    /\ items = <<>>
    /\ constants = EmptyMap
    /\ labels = EmptyMap
    /\ alog = <<>>
    /\ err = NoErr
    /\ program = <<>>
    /\ rin = Wide(0, 0)
    /\ rout = [hi |-> 0, lo |-> 0]

(***************************************************************************)
(* Layout: labels, data, aligns, base / compressible / pseudo instructions.*)
(***************************************************************************)
LayoutAlphabet ==
    { LabelStmt("a"), LabelStmt("b"),
      Op("addi", <<Id("x9"), Id("x9"), N(1)>>),
      Op("add", <<Id("x1"), Id("x2"), Id("x3")>>),
      Op("li", <<Id("x5"), N(1)>>),
      Op("li", <<Id("x5"), N(74565)>>),
      Op("call", <<Id("a")>>),
      Op("tail", <<Id("b")>>),
      Op("bytes", <<N(1)>>),
      Op("align", <<N(4)>>),
      Op("align", <<N(3)>>) }

Init == InitWith(Programs(LayoutAlphabet, MaxLen))
Spec == Init /\ [][Next]_vars

(***************************************************************************)
(* The relocation helpers on their own: relocate_hi and relocate_lo of a   *)
(* 32-bit value v = q * 4096 + r, signed or unsigned, for every low part r *)
(* and for the high parts around the sign and wrap boundaries.             *)
(***************************************************************************)
RelocHighParts == {-524288, -524287, -262144, -2, -1, 0, 1, 2, 262143, 524286, 524287,
                   524288, 524289, 1048574, 1048575}

Relocate ==
    /\ pc = "relocate"
    /\ pc' = "relocated"
    /\ rout' = [hi |-> relocate_hi_w(rin), lo |-> relocate_lo_w(rin)]
    /\ UNCHANGED <<src, compress, items, constants, labels, alog, err, program, rin>>

InitReloc ==
    /\ rin \in {Wide(q, r) : q \in RelocHighParts, r \in 0..4095}
    /\ rout = [hi |-> 0, lo |-> 0]
    /\ pc = "relocate"
    /\ src = <<>>
    /\ compress = FALSE
    /\ items = <<>>
    /\ constants = EmptyMap
    /\ labels = EmptyMap
    /\ alog = <<>>
    /\ err = NoErr
    /\ program = <<>>

NextReloc == Relocate
SpecReloc == InitReloc /\ [][NextReloc]_vars

\* ((hi << 12) + lo) & 0xFFFFFFFF, sign-extended from 32 bits
Recombined ==
    LET sum == WAdd(Wide(rout.hi, 0), ToWide(rout.lo))        \* (hi << 12) + lo
    IN  sign_extend32(Wide(sum.q % Pow2(20), sum.r))          \* & 0xFFFFFFFF

\* C8: for every 32-bit v the pair (relocate_hi(v), relocate_lo(v)) recombines to v:
\* sign_extend(((hi << 12) + lo) & 0xFFFFFFFF, 32) = sign_extend(v, 32), with lo in
\* [-2048, 2047] and hi in [-0x80000, 0x7ffff].
C8_RelocateRoundTrip ==
    pc = "relocated" =>
        /\ Recombined = sign_extend32(rin)
        /\ rout.lo >= -2048 /\ rout.lo <= 2047
        /\ rout.hi >= -524288 /\ rout.hi <= 524287

\* the carry case at the top of the signed range: v = 0x7FFFF800
C8_Witness ==
    /\ pc = "relocated"
    /\ rin = Wide(524287, 2048)
    /\ rout = [hi |-> -524288, lo |-> -2048]

(***************************************************************************)
(* Properties of the layout.  A statement of the source is one line, and   *)
(* every item keeps the Line of the statement it came from, so the bytes   *)
(* emitted before the first item after line k are the bytes of the final   *)
(* blobs whose line is below k.                                            *)
(***************************************************************************)
\* the lines of the source that define the label
LabelLines(name) == {k \in 1..Len(src) : src[k] = LabelStmt(name)}

LabelNames == {src[k].head : k \in {j \in 1..Len(src) : src[j].kind = "label"}}

\* the line of the definition that resolve_labels keeps
KeptLine(name) == CHOOSE k \in LabelLines(name) : \A j \in LabelLines(name) : j <= k

\* number of output bytes emitted for the statements before line k
BytesBefore(k) ==
    LET RECURSIVE Sum(_)
        Sum(i) == IF i > Len(items) THEN 0
                  ELSE (IF items[i].line < k THEN Size(items[i]) ELSE 0) + Sum(i + 1)
    IN  Sum(1)

\* C10: a source that defines the same label name twice never assembles: assemble
\* fails instead of keeping one of the two positions.
C10_DuplicateLabelFails ==
    (\E name \in LabelNames : Cardinality(LabelLines(name)) > 1) => pc # "done"

\* C1: after assemble returns successfully, with compress on or off, every label of
\* the source is bound, and labels[name] is the number of output bytes emitted before
\* the first item that follows the definition of the label (the definition that
\* resolve_labels keeps), whatever instructions, pseudo-instructions, data and aligns
\* stand before or after it.
C1_LabelIsBytesBefore ==
    pc = "done" =>
        /\ DOMAIN labels = LabelNames
        /\ \A name \in LabelNames : labels[name] = BytesBefore(KeptLine(name))

\* compress on: a compressible instruction and a padded align before the label, a
\* pseudo-instruction after it
C1_Witness ==
    /\ pc = "done"
    /\ compress
    /\ src = <<Op("addi", <<Id("x9"), Id("x9"), N(1)>>), Op("align", <<N(4)>>),
               LabelStmt("a")>>
    /\ labels["a"] = 4
    /\ Len(program) = 4

\* the lines of the source that hold an align statement
AlignLines == {k \in 1..Len(src) : src[k].kind = "op" /\ src[k].head = "align"}

\* C2: resolve_aligns replaces each Align(n), n >= 1, found at running position p by
\* exactly (n - p mod n) mod n zero bytes, and by no item at all when that is 0; the
\* item after the align starts at a multiple of n; every label greater than p is
\* lowered by n minus the padding and no other label moves.
C2_AlignPadding ==
    /\ \A i \in 1..Len(alog) :
          LET e == alog[i]
              n == e.alignment
              p == e.position
              padding == (n - (p % n)) % n
          IN  /\ n >= 1
              /\ e.padding = padding
              /\ e.emitted = IF padding = 0 THEN <<>>
                             ELSE <<Blob(e.emitted[1].line, Chunk(Zeros(padding), 0))>>
              /\ e.next = p + padding
              /\ e.next % n = 0
              /\ e.after = [k \in DOMAIN e.before |->
                               IF e.before[k] > p THEN e.before[k] - (n - padding)
                               ELSE e.before[k]]
    /\ pc = "done" =>
          /\ Len(alog) = Cardinality(AlignLines)
          /\ \A k \in AlignLines : BytesBefore(k + 1) % src[k].toks[1].v = 0

\* one byte, then align 4: three bytes of padding, and the label behind the align
\* comes down from 5 to 4
C2_Witness ==
    /\ pc = "done"
    /\ src = <<Op("bytes", <<N(1)>>), Op("align", <<N(4)>>), LabelStmt("a")>>
    /\ alog[1].padding = 3
    /\ alog[1].before["a"] = 5
    /\ alog[1].after["a"] = 4
    /\ program = <<1, 0, 0, 0>>

(***************************************************************************)
(* Branches and jumps to a label or to a literal offset, with data and an  *)
(* align between the instruction and the label.                            *)
(***************************************************************************)
BranchLen == 4

BranchAlphabet ==
    { LabelStmt("L"),
      Op("beq", <<Id("x8"), Id("x0"), Id("L")>>),
      Op("bne", <<Id("x1"), Id("x2"), Id("L")>>),
      Op("jal", <<Id("x1"), Id("L")>>),
      Op("jal", <<Id("x0"), N(8)>>),
      Op("bytes", <<N(1)>>),
      Op("align", <<N(3)>>) }

SpecBranch == InitWith(Programs(BranchAlphabet, BranchLen)) /\ [][Next]_vars

\* bit i of a little-endian instruction word
BitOf(bs, i) == (bs[(i \div 8) + 1] \div Pow2(i % 8)) % 2

\* the width bits from bit lo upwards, as a number
BitField(bs, lo, width) ==
    LET RECURSIVE Sum(_)
        Sum(j) == IF j >= width THEN 0 ELSE BitOf(bs, lo + j) * Pow2(j) + Sum(j + 1)
    IN  Sum(0)

\* the branch or jump offset held by an encoded instruction, read as the ISA lays
\* it out: B and J formats (opcodes 1100011, 1101111) and, in quadrant 1, the CJ
\* format (c.jal 001, c.j 101) and the CB format (c.beqz 110, c.bnez 111)
DecodedOffset(bs) ==
    CASE Len(bs) = 4 /\ bs[1] % 128 = 99 ->
            BitField(bs, 8, 4) * 2 + BitField(bs, 25, 6) * 32 + BitOf(bs, 7) * 2048
                - BitOf(bs, 31) * 4096
      [] Len(bs) = 4 /\ bs[1] % 128 = 111 ->
            BitField(bs, 21, 10) * 2 + BitOf(bs, 20) * 2048 + BitField(bs, 12, 8) * 4096
                - BitOf(bs, 31) * 1048576
      [] Len(bs) = 2 /\ bs[1] % 4 = 1 /\ BitField(bs, 13, 3) \in {1, 5} ->
            BitField(bs, 3, 3) * 2 + BitOf(bs, 11) * 16 + BitOf(bs, 2) * 32
                + BitOf(bs, 7) * 64 + BitOf(bs, 6) * 128 + BitField(bs, 9, 2) * 256
                + BitOf(bs, 8) * 1024 - BitOf(bs, 12) * 2048
      [] Len(bs) = 2 /\ bs[1] % 4 = 1 /\ BitField(bs, 13, 3) \in {6, 7} ->
            BitField(bs, 3, 2) * 2 + BitField(bs, 10, 2) * 8 + BitOf(bs, 2) * 32
                + BitField(bs, 5, 2) * 64 - BitOf(bs, 12) * 256
      [] OTHER -> 1

\* the bytes emitted for the instruction written on line k
BytesOfLine(k) == items[CHOOSE i \in 1..Len(items) : items[i].line = k].data.b

\* the lines that hold a base branch or a jal
JumpLines ==
    {k \in 1..Len(src) : src[k].kind = "op"
                         /\ src[k].head \in {"beq", "bne", "blt", "bge", "bltu", "bgeu", "jal"}}

\* C3: the immediate encoded for a base branch or a jal that names a label is the
\* final position of the label minus the final position of the instruction; a
\* numeric literal in the same slot is encoded unchanged.
C3_BranchOffsets ==
    pc = "done" =>
        \A k \in JumpLines :
            LET target == src[k].toks[Len(src[k].toks)]
            IN  DecodedOffset(BytesOfLine(k)) =
                    IF target.num THEN target.v ELSE labels[target.id] - BytesBefore(k)

\* the same with compress off
C3_BranchOffsetsUncompressed == compress \/ C3_BranchOffsets

(***************************************************************************)
(* The li, call and tail pseudo-instructions, with labels near and far:    *)
(* "include_bytes f n" stands for the inclusion of a file f of n bytes.    *)
(***************************************************************************)
PseudoLen == 3

PseudoAlphabet ==
    { LabelStmt("L"),
      Op("li", <<Id("x5"), N(1)>>),
      Op("li", <<Id("x5"), N(4096)>>),
      Op("li", <<Id("x5"), N(74565)>>),
      Op("li", <<Id("x5"), Id("L")>>),
      Op("call", <<Id("L")>>),
      Op("tail", <<Id("L")>>),
      Op("include_bytes", <<Id("f"), N(2044)>>),
      Op("include_bytes", <<Id("f"), N(4088)>>),
      Op("include_bytes", <<Id("f"), N(1048576)>>),
      Op("include_bytes", <<Id("f"), N(1050616)>>) }

SpecPseudo == InitWith(Programs(PseudoAlphabet, PseudoLen)) /\ [][Next]_vars

\* all the bytes emitted for the statement on line k
LineBytes(k) ==
    LET RECURSIVE Cat(_)
        Cat(i) == IF i > Len(items) THEN <<>>
                  ELSE (IF items[i].line = k THEN items[i].data.b ELSE <<>>) \o Cat(i + 1)
    IN  Cat(1)

LiLines == {k \in 1..Len(src) : src[k].kind = "op" /\ src[k].head = "li"}

\* the documented expansion of "li rd, imm" for the value of imm
LiExpansion(rd, value) ==
    LET lo == WithMod("%lo", N(value))
        hi == WithMod("%hi", N(value))
    IN  IF value >= -2048 /\ value <= 2047 THEN <<Op("addi", <<rd, Id("x0"), lo>>)>>
        ELSE IF value % 4096 = 0 THEN <<Op("lui", <<rd, hi>>)>>
        ELSE <<Op("lui", <<rd, hi>>), Op("addi", <<rd, rd, lo>>)>>

\* C4: "li rd, imm" assembles to the bytes of its documented expansion, chosen by
\* the value of imm as a signed 32-bit integer: addi rd x0 %lo(imm) in [-2048, 2047],
\* else lui rd %hi(imm) alone when the low 12 bits are zero, else lui then addi.
C4_LiExpansion ==
    pc = "done" =>
        \A k \in LiLines :
            LET imm == src[k].toks[2]
                value == c_int32(IF imm.num THEN imm.v ELSE labels[imm.id])
            IN  LineBytes(k) = assemble(LiExpansion(src[k].toks[1], value), compress).program

CallLines == {k \in 1..Len(src) : src[k].kind = "op" /\ src[k].head \in {"call", "tail"}}

\* label position minus the position of the call site on line k
CallOffset(k) == labels[src[k].toks[1].id] - BytesBefore(k)

Near(offset) == offset >= -1048576 /\ offset <= 1048575

\* the source with "jal x1 label" for every call and "jal x0 label" for every tail
JalForm(source) ==
    [k \in DOMAIN source |->
        IF source[k].kind = "op" /\ source[k].head = "call"
        THEN Op("jal", <<Id("x1"), source[k].toks[1]>>)
        ELSE IF source[k].kind = "op" /\ source[k].head = "tail"
        THEN Op("jal", <<Id("x0"), source[k].toks[1]>>)
        ELSE source[k]]

\* C5: when every call and tail of a source is within [-2^20, 2^20 - 1] of its
\* label, the source assembles to the bytes of the same source with jal x1 label in
\* place of call label and jal x0 label in place of tail label.
C5_NearCallIsJal ==
    (pc = "done" /\ CallLines # {} /\ \A k \in CallLines : Near(CallOffset(k))) =>
        LET ref == assemble(JalForm(src), compress)
        IN  ref.pc = "done" /\ ref.program = program

\* bs is an auipc with immediate H followed by a jalr with immediate L, and
\* (H << 12) + L is the offset modulo 2^32
IsAuipcJalr(bs, offset) ==
    /\ Len(bs) = 8
    /\ bs[1] % 128 = 23
    /\ bs[5] % 128 = 103
    /\ LET jalr == SubSeq(bs, 5, 8)
           H == BitField(bs, 12, 19) - BitOf(bs, 31) * Pow2(19)
           L == BitField(jalr, 20, 11) - BitOf(jalr, 31) * 2048
           sum == WAdd(Wide(H, 0), ToWide(L))
       IN  sign_extend32(Wide(sum.q % Pow2(20), sum.r)) = sign_extend32(ToWide(offset))

\* C6: a call or tail whose offset is outside [-2^20, 2^20 - 1] assembles, into an
\* auipc with immediate H and a jalr with immediate L such that (H << 12) + L is
\* the label position minus the position of the auipc, modulo 2^32.
C6_FarCallResolves ==
    \A k \in CallLines :
        (src[k].toks[1].id \in DOMAIN labels /\ ~Near(CallOffset(k))) =>
            /\ ~(pc = "failed" /\ err.line = k)
            /\ pc = "done" => IsAuipcJalr(LineBytes(k), CallOffset(k))

(***************************************************************************)
(* Compression: for each rule of the table, base instructions that satisfy *)
(* it (at the ends of its ranges and inside) next to the compressed        *)
(* mnemonic with the same registers and immediate.  The instruction stands *)
(* before or after two bytes of data and the label L.                      *)
(***************************************************************************)
CompressCases ==
    LET Prime == {Id("x8"), Id("s1"), Id("x15")}          \* registers x8..x15
        NonZero == {Id("x1"), Id("t0"), Id("x31")}        \* not x0 and not x2
        Case(base, direct) == [base |-> base, direct |-> direct]
        sp == Id("sp")
        x0 == Id("x0")
        ra == Id("ra")
        Targets(lo, hi) == {N(lo), N(0), N(hi), Id("L")}
    IN  {Case(Op("addi", <<sp, sp, N(i)>>), Op("c.addi16sp", <<N(i)>>)) :
            i \in {-512, -16, 16, 496}}
        \cup {Case(Op("addi", <<r, sp, N(i)>>), Op("c.addi4spn", <<r, N(i)>>)) :
            r \in Prime, i \in {4, 1020}}
        \cup {Case(Op("lw", <<r, s, N(i)>>), Op("c.lw", <<r, s, N(i)>>)) :
            r \in Prime, s \in Prime, i \in {0, 124}}
        \cup {Case(Op("sw", <<r, s, N(i)>>), Op("c.sw", <<r, s, N(i)>>)) :
            r \in Prime, s \in Prime, i \in {0, 124}}
        \cup {Case(Op("addi", <<x0, x0, N(0)>>), Op("c.nop", <<>>))}
        \cup {Case(Op("addi", <<r, r, N(i)>>), Op("c.addi", <<r, N(i)>>)) :
            r \in NonZero \cup Prime, i \in {-32, -1, 1, 31}}
        \cup {Case(Op("jal", <<ra, t>>), Op("c.jal", <<t>>)) : t \in Targets(-2048, 2046)}
        \cup {Case(Op("addi", <<r, x0, N(i)>>), Op("c.li", <<r, N(i)>>)) :
            r \in NonZero \cup {sp}, i \in {-32, 0, 31}}
        \cup {Case(Op("lui", <<r, N(i)>>), Op("c.lui", <<r, N(i)>>)) :
            r \in NonZero, i \in {-32, -1, 1, 31, 1048544, 1048575}}
        \cup {Case(Op(n, <<r, r, N(i)>>), Op("c." \o n, <<r, N(i)>>)) :
            n \in {"srli", "srai"}, r \in Prime, i \in {1, 31}}
        \cup {Case(Op("andi", <<r, r, N(i)>>), Op("c.andi", <<r, N(i)>>)) :
            r \in Prime, i \in {-32, 0, 31}}
        \cup {Case(Op(n, <<r, r, s>>), Op("c." \o n, <<r, s>>)) :
            n \in {"sub", "xor", "or", "and"}, r \in Prime, s \in Prime}
        \cup {Case(Op("jal", <<x0, t>>), Op("c.j", <<t>>)) : t \in Targets(-2048, 2046)}
        \cup {Case(Op("beq", <<r, x0, t>>), Op("c.beqz", <<r, t>>)) :
            r \in Prime, t \in Targets(-256, 254)}
        \cup {Case(Op("bne", <<r, x0, t>>), Op("c.bnez", <<r, t>>)) :
            r \in Prime, t \in Targets(-256, 254)}
        \cup {Case(Op("slli", <<r, r, N(i)>>), Op("c.slli", <<r, N(i)>>)) :
            r \in NonZero \cup {sp}, i \in {1, 31}}
        \cup {Case(Op("lw", <<r, sp, N(i)>>), Op("c.lwsp", <<r, N(i)>>)) :
            r \in NonZero \cup Prime, i \in {0, 252}}
        \cup {Case(Op("jalr", <<x0, r, N(0)>>), Op("c.jr", <<r>>)) : r \in NonZero \cup {sp}}
        \cup {Case(Op("add", <<r, x0, s>>), Op("c.mv", <<r, s>>)) :
            r \in NonZero, s \in NonZero \cup {sp}}
        \cup {Case(Op("ebreak", <<>>), Op("c.ebreak", <<>>))}
        \cup {Case(Op("add", <<r, r, s>>), Op("c.add", <<r, s>>)) :
            r \in NonZero, s \in NonZero \cup {sp}}
        \cup {Case(Op("jalr", <<ra, r, N(0)>>), Op("c.jalr", <<r>>)) : r \in NonZero \cup {sp}}
        \cup {Case(Op("sw", <<sp, s, N(i)>>), Op("c.swsp", <<s, N(i)>>)) :
            s \in NonZero \cup {x0}, i \in {0, 252}}

CompressPrograms ==
    LET data == Op("bytes", <<N(1), N(2)>>)
    IN  {<<LabelStmt("L"), data, c.base>> : c \in CompressCases}
        \cup {<<c.base, data, LabelStmt("L")>> : c \in CompressCases}

SpecCompress == InitWith(CompressPrograms) /\ [][Next]_vars

\* the source with the compressed mnemonic written in place of the base instruction
DirectForm(source) ==
    [k \in DOMAIN source |->
        IF \E c \in CompressCases : c.base = source[k]
        THEN (CHOOSE c \in CompressCases : c.base = source[k]).direct
        ELSE source[k]]

\* C7: a base instruction that satisfies a compression rule assembles with
\* compress=True, and to exactly the bytes (and label positions) that the
\* compressed mnemonic written directly, with the same registers and immediate,
\* assembles to with compress=False.
C7_CompressMatchesDirect ==
    (compress /\ pc \in {"done", "failed"}) =>
        LET ref == assemble(DirectForm(src), FALSE)
        IN  /\ pc = "done"
            /\ ref.pc = "done"
            /\ ref.program = program
            /\ ref.labels = labels

\* the same for the sources whose operands are registers and numbers only
C7_CompressMatchesDirectNumeric ==
    (\A k \in DOMAIN src : \A j \in DOMAIN src[k].toks : src[k].toks[j].id # "L")
        => C7_CompressMatchesDirect

(***************************************************************************)
(* Failures: sources with a statement that cannot be assembled, next to    *)
(* statements that can.                                                    *)
(***************************************************************************)
ErrLen == 2

ErrAlphabet ==
    { LabelStmt("a"),
      Op("addi", <<Id("x9"), Id("x9"), N(1)>>),
      Op("addi", <<Id("q0"), Id("x0"), N(1)>>),        \* no such register
      Op("addi", <<Id("x1"), Id("x1"), N(4096)>>),     \* immediate out of range
      Op("jal", <<Id("x1"), Id("nowhere")>>),          \* no such label
      Op("frob", <<Id("x1")>>),                        \* no such mnemonic
      Op("bytes", <<N(256)>>),                         \* not a byte
      Op("bytes", <<Id("foo")>>),                      \* not a number
      Op("align", <<N(0)>>),
      Op("align", <<>>),
      Op("li", <<>>),
      Op("sw", <<Id("x1")>>),
      Op("ebreak", <<N(1)>>) }

SpecErr == InitWith(Programs(ErrAlphabet, ErrLen)) /\ [][Next]_vars

\* C9: every failure of assemble reaches the caller as an AssemblerError that
\* carries the Line of the statement it comes from; no other exception escapes.
C9_FailureIsAssemblerError ==
    pc = "failed" => err.type = "AssemblerError" /\ err.line \in 1..Len(src)

(***************************************************************************)
(* Statement forms: short sources built around one statement of interest   *)
(* (a constant definition, a directly written compressed instruction, an   *)
(* immediate at the end of its range, a register in each of its spellings).*)
(***************************************************************************)
\* the ways to write register n: the integer or numeric string n, "x{n}", the ABI
\* alias, and "fp" for 8
RegisterSpellings(n) ==
    LET aliases == <<"zero", "ra", "sp", "gp", "tp", "t0", "t1", "t2", "s0", "s1", "a0",
                     "a1", "a2", "a3", "a4", "a5", "a6", "a7", "s2", "s3", "s4",
                     "s5", "s6", "s7", "s8", "s9", "s10", "s11", "t3", "t4", "t5",
                     "t6">>
    IN  {N(n), Id("x" \o ToString(n)), Id(aliases[n + 1])}
        \cup (IF n = 8 THEN {Id("fp")} ELSE {})

FormPrograms ==
    LET use == Op("addi", <<Id("x1"), Id("x1"), Id("FOO")>>)
        ConstNames == {Id("FOO"), Id("BAR"), Id("x5"), Id("t0"), Id("fp"), N(5), N(32)}
        Constants == {<<ConstStmt(a, N(7)), ConstStmt(b, N(9)), use>> :
                         a \in ConstNames, b \in ConstNames}
                     \cup {<<ConstStmt(Id("FOO"), N(7)), use, LabelStmt("L")>>}
        Zero == {Id("x0"), Id("zero"), N(0)}
        Two == {Id("x2"), Id("sp")}
        Reg == {Id("x1"), Id("x8")}
        \* directly written compressed instructions, as in test_compressed_constraints
        Compressed ==
            {Op(n, <<r, N(i)>>) : n \in {"c.addi", "c.lui", "c.li", "c.slli"},
                                  r \in Zero \cup Two \cup Reg, i \in {0, 1}}
            \cup {Op("c.lwsp", <<r, N(4)>>) : r \in Zero \cup Reg}
            \cup {Op(n, <<r>>) : n \in {"c.jr", "c.jalr"}, r \in Zero \cup Reg}
            \cup {Op(n, <<r, s>>) : n \in {"c.mv", "c.add"}, r \in Zero \cup Reg,
                                    s \in Zero \cup Reg}
            \cup {Op(n, <<Id("x8"), N(i)>>) :
                     n \in {"c.addi4spn", "c.srli", "c.srai", "c.andi"}, i \in {0, 4}}
            \cup {Op("c.addi16sp", <<N(i)>>) : i \in {0, 16}}
        nop == Op("c.nop", <<>>)
        Direct == {<<c>> : c \in Compressed} \cup {<<nop, c>> : c \in Compressed}
                  \cup {<<c, nop>> : c \in Compressed}
        \* an I-type instruction with its immediate at, and just past, each end of the range
        Immediates == {<<Op(n, <<Id("x5"), Id("x6"), N(i)>>)>> :
                          n \in {"addi", "lw", "andi"}, i \in {-2049, -2048, -1, 0, 2047, 2048}}
        \* one instruction of each encoder, its registers in every spelling
        Spelled == UNION {RegisterSpellings(n) : n \in 0..31}
        Registers ==
            {<<Op(n, <<r, r, r>>)>> : n \in {"add", "sll"}, r \in Spelled}
            \cup {<<Op(n, <<r, r, N(4)>>)>> :
                     n \in {"addi", "lw", "sw", "beq", "jalr", "c.lw", "c.sw"}, r \in Spelled}
            \cup {<<Op(n, <<r, N(4)>>)>> :
                     n \in {"lui", "jal", "c.addi", "c.lui", "c.lwsp", "c.swsp", "c.addi4spn",
                            "c.andi", "c.beqz"}, r \in Spelled}
            \cup {<<Op(n, <<r, r>>)>> : n \in {"c.mv", "c.sub"}, r \in Spelled}
            \cup {<<Op("c.jr", <<r>>)>> : r \in Spelled}
        \* a forward jump or branch over a file and one more instruction, the label
        \* at, and just past, the end of the compressed form's range
        Forward ==
            {<<j, Op("include_bytes", <<Id("f"), N(n)>>), i, LabelStmt("L")>> :
                j \in {Op("jal", <<Id("x0"), Id("L")>>), Op("jal", <<Id("x1"), Id("L")>>)},
                n \in {2036, 2040, 2044},
                i \in {Op("li", <<Id("x5"), N(1)>>), Op("addi", <<Id("x5"), Id("x0"), N(1)>>)}}
            \cup {<<j, Op("include_bytes", <<Id("f"), N(n)>>), i, LabelStmt("L")>> :
                j \in {Op("beq", <<Id("x8"), Id("x0"), Id("L")>>),
                       Op("bne", <<Id("x8"), Id("x0"), Id("L")>>)},
                n \in {244, 248, 252},
                i \in {Op("li", <<Id("x5"), N(1)>>), Op("addi", <<Id("x5"), Id("x0"), N(1)>>)}}
        \* immediates at the ends of a field's range, past them, and off its scale
        Ranges ==
            {<<Op(n, <<Id("x8"), N(i)>>)>> :
                n \in {"c.beqz", "c.bnez"}, i \in {-258, -256, 3, 254, 256}}
            \cup {<<Op(n, <<Id("x8"), N(i)>>)>> :
                n \in {"c.andi", "c.srli", "c.srai"}, i \in {-33, 1, 31, 64}}
            \cup {<<Op(n, <<N(i)>>)>> : n \in {"c.j", "c.jal"}, i \in {-2050, -2048, 3, 2046, 2048}}
            \cup {<<Op(n, <<Id("x1"), N(i)>>)>> : n \in {"c.addi", "c.li"}, i \in {-33, -32, 31, 32}}
            \cup {<<Op("c.lwsp", <<Id("x1"), N(i)>>)>> : i \in {-4, 3, 252, 256}}
            \cup {<<Op("beq", <<Id("x5"), Id("x6"), N(i)>>)>> : i \in {-4098, -4096, 3, 4094, 4096}}
        \* a jump or branch to a label before or behind it, in its base and in its
        \* compressed spelling
        L == Id("L")
        Jumps == {Op("c.j", <<L>>), Op("c.jal", <<L>>), Op("c.beqz", <<Id("x8"), L>>),
                  Op("c.bnez", <<Id("x8"), L>>), Op("jal", <<Id("x0"), L>>),
                  Op("beq", <<Id("x8"), Id("x0"), L>>)}
        data == Op("bytes", <<N(1), N(2)>>)
        ToLabel == {<<LabelStmt("L"), data, j>> : j \in Jumps}
                   \cup {<<data, j, LabelStmt("L")>> : j \in Jumps}
                   \cup {<<j, data, LabelStmt("L")>> : j \in Jumps}
        \* a constant whose expression is the name of a label, defined before or
        \* after it; the label named like nothing else, like a register, or like an
        \* earlier constant
        foo(n) == ConstStmt(Id("FOO"), Id(n))
        OfLabel == UNION {{<<LabelStmt(n), foo(n), use>>, <<foo(n), LabelStmt(n), use>>,
                           <<data, LabelStmt(n), foo(n), use>>,
                           <<ConstStmt(Id(n), N(3)), LabelStmt(n), foo(n), use>>} :
                          n \in {"L", "M", "sp", "x5"}}
        \* an adjustment of the stack pointer, its immediate on and off the grid of 16
        SpAdjust == {<<Op("addi", <<r, r, N(i)>>)>> :
                        r \in {Id("sp"), Id("x2")},
                        i \in {-528, -512, -32, -16, 0, 8, 16, 32, 496, 512}}
        \* a jump or branch over an align of negative alignment and a file
        NegAlign == {<<Op("bytes", <<N(1), N(2)>>), j[1], Op("align", <<N(a)>>),
                        Op("include_bytes", <<Id("f"), N(j[2])>>), LabelStmt("L")>> :
                        j \in ({Op("jal", <<Id("x0"), Id("L")>>), Op("jal", <<Id("x1"), Id("L")>>)}
                                    \X {2038, 2042, 2046})
                               \cup ({Op("beq", <<Id("x8"), Id("x0"), Id("L")>>),
                                      Op("bne", <<Id("x8"), Id("x0"), Id("L")>>)}
                                        \X {246, 250, 254}),
                         a \in {-4, -2, 4}}
        \* li of a label, then a compressible instruction and a file before the label
        LiOver == {<<Op("li", <<Id(rd), Id("L")>>), Op("addi", <<Id("x9"), Id("x9"), N(1)>>),
                     Op("include_bytes", <<Id("f"), N(n)>>), LabelStmt("L")>> :
                      rd \in {"x0", "x5"}, n \in {2032, 2040, 4084}}
    IN  Constants \cup Direct \cup Immediates \cup Registers \cup Forward \cup Ranges
        \cup ToLabel \cup OfLabel \cup SpAdjust \cup NegAlign \cup LiOver

SpecForms == InitWith(FormPrograms) /\ [][Next]_vars

\* the lines that define a constant whose name is a register name, an ABI alias or
\* a number
BadConstLines ==
    {k \in 1..Len(src) : src[k].kind = "const"
                         /\ (src[k].toks[1].num \/ src[k].toks[1].id \in DOMAIN REGISTERS)}

\* C11: once resolve_constants has run over a source that defines a constant named
\* like a register (name, ABI alias, numeric token) or like an integer literal, the
\* assembly has failed with an AssemblerError on the first such line, and no such
\* name is ever added to the constants map.
C11_ConstantNameRejected ==
    \A k \in BadConstLines :
        /\ src[k].toks[1].id \notin DOMAIN constants
        /\ pc \notin {"parse", "resolve_constants"} =>
              /\ pc = "failed"
              /\ err = AssemblerError(CHOOSE j \in BadConstLines : \A i \in BadConstLines : j <= i)

\* a good definition, then a numeric name: the first is kept, the second refused
C11_Witness ==
    /\ pc = "failed"
    /\ src[1] = ConstStmt(Id("FOO"), N(7))
    /\ src[2] = ConstStmt(N(32), N(9))
    /\ constants = [n \in {"FOO"} |-> 7]
    /\ err = AssemblerError(2)


\* the statement breaks the field constraint of its compressed form
ViolatesConstraint(st) ==
    LET h == st.head
        t == st.toks
        zero(tok) == tok \in {Id("x0"), Id("zero"), N(0)}
        two(tok) == tok \in {Id("x2"), Id("sp"), N(2)}
    IN  /\ st.kind = "op"
        /\ \/ h = "c.addi" /\ (zero(t[1]) \/ t[2] = N(0))
           \/ h = "c.lui" /\ (zero(t[1]) \/ two(t[1]) \/ t[2] = N(0))
           \/ h \in {"c.li", "c.slli", "c.lwsp", "c.jr", "c.jalr"} /\ zero(t[1])
           \/ h \in {"c.mv", "c.add"} /\ (zero(t[1]) \/ zero(t[2]))
           \/ h \in {"c.addi4spn", "c.srli", "c.srai"} /\ t[2] = N(0)
           \/ h = "c.addi16sp" /\ t[1] = N(0)

ViolatingLines == {k \in 1..Len(src) : ViolatesConstraint(src[k])}

\* C12: a source with a directly written compressed instruction that breaks its
\* form's field constraint (c.addi with rd = x0 or imm = 0; c.lui with rd x0 or x2
\* or imm = 0; c.li, c.slli, c.lwsp, c.jr, c.jalr, c.mv, c.add with a zero register;
\* c.addi4spn, c.addi16sp, c.srli, c.srai with imm = 0) never gets past
\* resolve_instructions: the assembly fails there with an AssemblerError on the
\* first such line, and no output is produced.
C12_ConstraintViolationFails ==
    ViolatingLines # {} =>
        /\ program = <<>>
        /\ pc \in {"failed", "resolve_sequences", "resolve_include_bytes", "resolve_blobs",
                   "done"} =>
              /\ pc = "failed"
              /\ err = AssemblerError(CHOOSE j \in ViolatingLines :
                                          \A i \in ViolatingLines : j <= i)

\* c.lui x2, 1 after a c.nop: refused on line 2, nothing written
C12_Witness ==
    /\ src = <<Op("c.nop", <<>>), Op("c.lui", <<Id("x2"), N(1)>>)>>
    /\ pc = "failed"
    /\ err = AssemblerError(2)
    /\ program = <<>>


\* the source is one I-type instruction (encoded by i_type) on plain registers with
\* a numeric immediate, and resolve_instructions has run
ITypeEncoded ==
    /\ Len(src) = 1
    /\ src[1].kind = "op"
    /\ src[1].head \in {"addi", "lw", "andi", "xori", "sltiu"}
    /\ Len(src[1].toks) = 3
    /\ src[1].toks[1] = Id("x5")
    /\ src[1].toks[2] = Id("x6")
    /\ src[1].toks[3].num
    /\ pc \in {"failed", "resolve_sequences", "resolve_include_bytes", "resolve_blobs", "done"}

\* C13: i_type encodes an immediate exactly when it lies in [-2048, 2047]: inside
\* the range (-2048 and 2047 included) the assembly goes on and bits 31:20 of the
\* encoding are the 12-bit two's complement of the immediate; outside it (-2049 and
\* 2048 included) the out-of-range error ends the assembly with no output.
C13_ITypeImmediateRange ==
    ITypeEncoded =>
        LET imm == src[1].toks[3].v
        IN  IF imm >= -2048 /\ imm <= 2047
            THEN /\ pc # "failed"
                 /\ Len(items) = 1
                 /\ Len(items[1].data.b) = 4
                 /\ BitField(items[1].data.b, 20, 12) = (IF imm < 0 THEN imm + 4096 ELSE imm)
                 /\ pc = "done" => program = items[1].data.b
            ELSE /\ pc = "failed"
                 /\ err = AssemblerError(1)
                 /\ program = <<>>

\* addi x5, x6, -2048 is encoded with 0x800 in bits 31:20
C13_Witness ==
    /\ ITypeEncoded
    /\ src[1] = Op("addi", <<Id("x5"), Id("x6"), N(-2048)>>)
    /\ pc = "done"
    /\ program = <<147, 2, 3, 128>>


\* the source with every register written as its number
ByNumber(source) ==
    LET num(tok) == IF \E n \in 0..31 : tok \in RegisterSpellings(n)
                    THEN N(CHOOSE n \in 0..31 : tok \in RegisterSpellings(n))
                    ELSE tok
    IN  [k \in DOMAIN source |->
            [source[k] EXCEPT !.toks = [j \in DOMAIN source[k].toks |-> num(source[k].toks[j])]]]

\* C14: whichever way the registers of an instruction are written ("x{n}", the ABI
\* alias, fp for x8, or the number n), the assembly ends the same way and with the
\* same code as with the registers written as numbers.
C14_RegisterSpellings ==
    pc \in {"done", "failed"} =>
        LET ref == assemble(ByNumber(src), compress)
        IN  /\ ref.pc = pc
            /\ ref.err = err
            /\ ref.program = program

\* c.sub fp, fp is the code of c.sub 8, 8
C14_Witness ==
    /\ src = <<Op("c.sub", <<Id("fp"), Id("fp")>>)>>
    /\ ByNumber(src) = <<Op("c.sub", <<N(8), N(8)>>)>>
    /\ pc = "done"
    /\ program = <<1, 140>>


IsUpperPart(item) ==
    IF item.t = "Blob"
    THEN LET b == item.data.b
         IN  \/ Len(b) = 4 /\ b[1] % 128 \in {55, 23}
             \/ Len(b) = 2 /\ b[1] % 4 = 1 /\ b[2] \div 32 = 3
    ELSE item.name \in {"lui", "auipc", "c.lui"}

\* the second one (addi or jalr, or the c.addi or c.jalr it was compressed to)
IsLowerPart(item) ==
    IF item.t = "Blob"
    THEN LET b == item.data.b
         IN  \/ Len(b) = 4 /\ b[1] % 128 \in {19, 103}
             \/ Len(b) = 2 /\ b[1] % 4 = 1 /\ b[2] \div 32 = 0
             \/ Len(b) = 2 /\ b[1] % 4 = 2 /\ b[2] \div 16 = 9
    ELSE item.name \in {"addi", "jalr", "c.addi", "c.jalr"}

\* the bytes of the source lines k.., line by line (the n bytes of an included file
\* are the one entry -n)
RECURSIVE BytesFromLine(_)
BytesFromLine(k) ==
    LET RECURSIVE OfLine(_)
        OfLine(i) ==
            IF i > Len(items) THEN <<>>
            ELSE (IF items[i].line # k THEN <<>>
                  ELSE items[i].data.b
                       \o (IF items[i].data.f > 0 THEN <<0 - items[i].data.f>> ELSE <<>>))
                 \o OfLine(i + 1)
    IN  IF k > Len(src) THEN <<>> ELSE OfLine(1) \o BytesFromLine(k + 1)

\* C16: after every pass the items are in the order of their source lines; two
\* items of one line are the two instructions of a pseudo-instruction's expansion,
\* next to each other and in order (upper part, then lower part); and the output
\* is the bytes of the source lines in line order.
C16_OrderKept ==
    /\ \A i \in 1..Len(items) : \A j \in 1..Len(items) :
          i < j => items[i].line <= items[j].line
    /\ \A i \in 1..Len(items) : \A j \in 1..Len(items) :
          (i < j /\ items[i].line = items[j].line) =>
              /\ j = i + 1
              /\ src[items[i].line].head \in {"li", "call", "tail"}
              /\ IsUpperPart(items[i])
              /\ IsLowerPart(items[j])
    /\ pc = "done" => program = BytesFromLine(1)

\* li x5, 74565 between a byte and an add: lui then addi, between the two
C16_Witness ==
    /\ src = <<Op("bytes", <<N(1)>>), Op("li", <<Id("x5"), N(74565)>>),
               Op("add", <<Id("x1"), Id("x2"), Id("x3")>>)>>
    /\ ~compress
    /\ pc = "done"
    /\ Len(items) = 4
    /\ items[2].line = 2
    /\ items[3].line = 2
    /\ program = <<1, 183, 34, 1, 0, 147, 130, 82, 52, 179, 0, 49, 0>>


\* the labels map after the expansions of li, call and tail in the items before,
\* told from the items after: an expansion at position p into one instruction
\* lowers every label above p by 4, an expansion into two changes no label
LabelsAfterExpansion(before, after, ls0) ==
    LET RECURSIVE Walk(_, _, _)
        Walk(i, p, ls) ==
            IF i > Len(before) THEN ls
            ELSE LET item == before[i]
                     single == Cardinality({j \in 1..Len(after) : after[j].line = item.line}) = 1
                 IN  IF item.t = "Pseudo" /\ item.name \in {"li", "call", "tail"}
                     THEN IF single
                          THEN Walk(i + 1, p + 4,
                                    [n \in DOMAIN ls |-> IF ls[n] > p THEN ls[n] - 4 ELSE ls[n]])
                          ELSE Walk(i + 1, p + 8, ls)
                     ELSE Walk(i + 1, p + Size(item), ls)
    IN  Walk(1, 0, ls0)

\* C17: a run of transform_pseudo_instructions that expands a li, call or tail at
\* position p into a single instruction lowers every label above p by exactly 4 and
\* leaves every other label as it was; an expansion into two instructions changes
\* no label.
C17_PseudoLabelShift ==
    [][(pc = "transform_pseudo_instructions" /\ pc' # "failed") =>
          labels' = LabelsAfterExpansion(items, items', labels)]_vars

\* li x5, 1 between two labels became one addi: the label behind it went from 8 to
\* 4, the label at its position stayed at 0
C17_Witness ==
    /\ src = <<LabelStmt("a"), Op("li", <<Id("x5"), N(1)>>), LabelStmt("b")>>
    /\ pc = "resolve_register_aliases_again"
    /\ Len(items) = 1
    /\ items[1].name = "addi"
    /\ labels = [n \in {"a", "b"} |-> IF n = "a" THEN 0 ELSE 4]


\* C18: when compress is on, the layout reached after the last run of
\* transform_compressible is a fixed point of it: one more run over the same
\* items, constants and labels rewrites no item and changes no label.
C18_CompressionFixedPoint ==
    (compress /\ pc = "resolve_aligns") =>
        LET more == transform_compressible(items, constants, labels)
        IN  /\ more.err = NoErr
            /\ more.items = items
            /\ more.labels = labels


\* the lines whose instruction has a numeric immediate outside the range of its
\* field or off the field's scale
BadImmediateLines ==
    LET Field(lo, hi, scale) == [lo |-> lo, hi |-> hi, scale |-> scale]
        FieldOf(h) ==
            CASE h \in {"c.beqz", "c.bnez"} -> Field(-256, 254, 2)
              [] h \in {"c.j", "c.jal"} -> Field(-2048, 2046, 2)
              [] h \in {"c.andi", "c.addi", "c.li"} -> Field(-32, 31, 1)
              [] h \in {"c.srli", "c.srai"} -> Field(0, 63, 1)
              [] h = "c.lwsp" -> Field(0, 252, 4)
              [] h = "beq" -> Field(-4096, 4094, 2)
              [] h \in {"addi", "lw", "andi"} -> Field(-2048, 2047, 1)
              [] OTHER -> Field(0, -1, 0)
    IN  {k \in 1..Len(src) :
            /\ src[k].kind = "op"
            /\ FieldOf(src[k].head).scale > 0
            /\ Len(src[k].toks) > 0
            /\ LET tok == src[k].toks[Len(src[k].toks)]
                   f == FieldOf(src[k].head)
               IN  /\ tok.num
                   /\ tok.mod = ""
                   /\ (tok.v < f.lo \/ tok.v > f.hi \/ tok.v % f.scale # 0)}

\* C19: an instruction whose immediate is outside the range its field can hold, or
\* is not a multiple of the field's scale, is refused by its encoder (c.beqz, c.bnez,
\* c.srli, c.srai and c.andi included): the assembly fails with an AssemblerError and
\* never gets past resolve_instructions.
C19_ImmediateRejected ==
    (BadImmediateLines # {}
     /\ pc \in {"failed", "resolve_sequences", "resolve_include_bytes", "resolve_blobs", "done"})
        => (pc = "failed" /\ err.type = "AssemblerError")


\* the lines that hold a directly written compressed jump or branch to a label
CompressedJumpLines ==
    {k \in 1..Len(src) : /\ src[k].kind = "op"
                         /\ src[k].head \in {"c.j", "c.jal", "c.beqz", "c.bnez"}
                         /\ ~src[k].toks[Len(src[k].toks)].num}

\* C20: the offset encoded for a directly written c.j, c.jal, c.beqz or c.bnez that
\* names a label is the final position of the label minus the final position of
\* the instruction, as for jal and beq/bne.
C20_CompressedJumpOffsets ==
    pc = "done" =>
        \A k \in CompressedJumpLines :
            DecodedOffset(BytesOfLine(k)) =
                labels[src[k].toks[Len(src[k].toks)].id] - BytesBefore(k)


\* the lines that define a constant whose expression is the name of a label of the
\* source, no earlier line defining a constant of that name
ConstOfLabelLines ==
    {k \in 1..Len(src) :
        /\ src[k].kind = "const"
        /\ ~src[k].toks[2].num
        /\ src[k].toks[2].id \in LabelNames
        /\ \A j \in 1..(k - 1) : src[j].kind = "const" => src[j].toks[1].id # src[k].toks[2].id}

\* C21: a constant definition whose expression names a label (no constant of that
\* name existing) makes the assembly fail with an AssemblerError, the label defined
\* before it or after it; the constant never gets a value.
C21_ConstantOfLabelFails ==
    \A k \in ConstOfLabelLines :
        /\ src[k].toks[1].id \notin DOMAIN constants
        /\ pc \notin {"parse", "resolve_constants"} =>
              (pc = "failed" /\ err.type = "AssemblerError")

\* the same for the labels that are not named like a register
C21_ConstantOfLabelFailsUnlessRegister ==
    \A k \in ConstOfLabelLines :
        src[k].toks[2].id \notin DOMAIN REGISTERS =>
            /\ src[k].toks[1].id \notin DOMAIN constants
            /\ pc \notin {"parse", "resolve_constants"} =>
                  (pc = "failed" /\ err = AssemblerError(k))


\* the lines "addi sp, sp, imm" with imm a non-zero multiple of 16 in [-512, 496]
SpAdjustLines ==
    {k \in 1..Len(src) :
        /\ src[k].kind = "op"
        /\ src[k].head = "addi"
        /\ Len(src[k].toks) = 3
        /\ src[k].toks[1] \in RegisterSpellings(2)
        /\ src[k].toks[2] \in RegisterSpellings(2)
        /\ src[k].toks[3].num
        /\ src[k].toks[3].v # 0
        /\ src[k].toks[3].v % 16 = 0
        /\ src[k].toks[3].v >= -512
        /\ src[k].toks[3].v <= 496}

\* C22: with compress on, once transform_compressible has run, "addi sp, sp, imm"
\* with imm a non-zero multiple of 16 in [-512, 496] is a c.addi16sp and never a
\* c.addi, also where imm fits the six bits of c.addi; it is encoded as c.addi16sp
\* (quadrant 1, funct3 011, rd 2) with that immediate.
C22_Addi16spFirst ==
    (compress /\ pc \notin {"parse", "resolve_constants", "resolve_labels",
                           "resolve_register_aliases", "transform_compressible", "failed"}) =>
        \A k \in SpAdjustLines :
            \E i \in 1..Len(items) :
                /\ items[i].line = k
                /\ IF items[i].t # "Blob" THEN items[i].name = "c.addi16sp"
                   ELSE LET b == items[i].data.b
                        IN  /\ Len(b) = 2
                            /\ BitField(b, 0, 2) = 1
                            /\ BitField(b, 13, 3) = 3
                            /\ BitField(b, 7, 5) = 2
                            /\ 16 * BitOf(b, 6) + 32 * BitOf(b, 2) + 64 * BitOf(b, 5)
                                 + 128 * BitField(b, 3, 2) - 512 * BitOf(b, 12)
                               = src[k].toks[3].v

\* addi sp, sp, 16 fits c.addi too and is assembled as c.addi16sp 16
C22_Witness ==
    /\ compress
    /\ src = <<Op("addi", <<Id("sp"), Id("sp"), N(16)>>)>>
    /\ SpAdjustLines = {1}
    /\ pc = "done"
    /\ program = <<65, 97>>


(***************************************************************************)
(* The reader on its own: read_lines() over a small file system, followed  *)
(* by the read that resolve_include_bytes makes at the end of assemble().  *)
(* A path is a directory and a name; a path without a directory part is    *)
(* relative, and the system opens it in the working directory.  A raw line *)
(* is the sequence of its words (raw_line.split()); a text file is the     *)
(* sequence of its raw lines, a binary file the sequence of its bytes.     *)
(* Here rin is the input (source, include_dirs, the files) and rout the    *)
(* list of Lines read_lines returns.                                       *)
(***************************************************************************)
Path(dir, name) == [dir |-> dir, name |-> name]

\* the file a path names
File(path) == IF path.dir = "" THEN Path("cwd", path.name) ELSE path

\* read_lines(path_or_source, include, include_dirs) over the files fs; the result is
\* the Lines or the exception
RECURSIVE read_lines(_, _, _, _)
read_lines(path_or_source, include, include_dirs, fs) ==
    LET exists       == ~path_or_source.inline /\ File(path_or_source.path) \in DOMAIN fs
        is_file      == exists \/ include
        source       == IF is_file THEN fs[File(path_or_source.path)] ELSE path_or_source.text
        first_path   == IF is_file THEN path_or_source.path ELSE Path("", "<string>")
        base_path    == IF exists THEN File(path_or_source.path).dir ELSE "cwd"
        current_dirs == include_dirs \o <<base_path>>
        found(name)  == {d \in 1..Len(current_dirs) : Path(current_dirs[d], name) \in DOMAIN fs}
        \* lookup(path, dirs): the first directory of dirs that holds the name
        lookup(name) == Path(current_dirs[CHOOSE d \in found(name) : \A e \in found(name) : d <= e], name)
        RECURSIVE loop(_, _, _)
        loop(i, path, lines) ==
            IF i > Len(source) THEN [lines |-> lines, err |-> NoErr]
            ELSE LET raw_line == source[i]
                     line     == [file |-> path, number |-> i, contents |-> raw_line]
                 IN  IF raw_line = <<>> THEN loop(i + 1, path, lines)
                     ELSE IF Len(raw_line) > 1 /\ raw_line[1] \in {"include", "include_bytes"}
                     THEN IF Len(raw_line) # 2 THEN [lines |-> <<>>, err |-> AssemblerError(i)]
                          ELSE IF found(raw_line[2]) = {} THEN [lines |-> <<>>, err |-> AssemblerError(i)]
                          ELSE IF raw_line[1] = "include"
                          THEN LET included == read_lines([inline |-> FALSE, text |-> <<>>,
                                                           path |-> lookup(raw_line[2])],
                                                          TRUE, include_dirs, fs)
                               IN  IF included.err # NoErr THEN included
                                   ELSE loop(i + 1, Path("", raw_line[2]), lines \o included.lines)
                          ELSE LET size == Len(fs[lookup(raw_line[2])])
                               IN  loop(i + 1, Path("", raw_line[2]),
                                        Append(lines, [line EXCEPT !.contents = raw_line \o <<ToString(size)>>]))
                     ELSE loop(i + 1, path, Append(lines, line))
    IN  loop(1, first_path, <<>>)

\* the rest of assemble() for the Lines of the reader: a "bytes" line gives its words, an
\* include_bytes line the bytes resolve_include_bytes reads: open(item.path) with the
\* path as the line wrote it, and the assertion that their count is the size recorded
RECURSIVE resolve_include_bytes_read(_, _)
resolve_include_bytes_read(lines, fs) ==
    IF lines = <<>> THEN [chunks |-> <<>>, err |-> NoErr]
    ELSE LET line == Head(lines)
             rest == resolve_include_bytes_read(Tail(lines), fs)
             path == File(Path("", line.contents[2]))
         IN  IF line.contents[1] # "include_bytes"
             THEN IF rest.err # NoErr THEN rest
                  ELSE [rest EXCEPT !.chunks = <<[words |-> line.contents, data |-> <<>>]>> \o @]
             ELSE IF Len(line.contents) # 3 THEN [chunks |-> <<>>, err |-> AssemblerError(line.number)]
             ELSE IF path \notin DOMAIN fs THEN [chunks |-> <<>>, err |-> Raise("FileNotFoundError", 0)]
             ELSE IF ToString(Len(fs[path])) # line.contents[3]
                  THEN [chunks |-> <<>>, err |-> Raise("AssertionError", 0)]
             ELSE IF rest.err # NoErr THEN rest
                  ELSE [rest EXCEPT !.chunks = <<[words |-> <<>>, data |-> fs[path]]>> \o @]

ReadLines ==
    /\ pc = "read_lines"
    /\ LET r == read_lines(rin.source, FALSE, rin.include_dirs, rin.fs)
       IN  /\ rout' = r.lines
           /\ err' = r.err
           /\ pc' = IF r.err = NoErr THEN "include_bytes" ELSE "failed"
    /\ UNCHANGED <<src, compress, items, constants, labels, alog, program, rin>>

ReadIncludeBytes ==
    /\ pc = "include_bytes"
    /\ LET r == resolve_include_bytes_read(rout, rin.fs)
       IN  /\ program' = r.chunks
           /\ err' = r.err
           /\ pc' = IF r.err = NoErr THEN "read" ELSE "failed"
    /\ UNCHANGED <<src, compress, items, constants, labels, alog, rin, rout>>

\* the sources: "main.s" of directory proj, or the same text handed over inline; the
\* files: a.s in no directory, in inc or in the working directory; f.bin in any of the
\* three directories, with one of two contents of the same size (or a third, shorter
\* one in the working directory)
SpecRead ==
    /\ LET alphabet == { <<"bytes", "1">>, <<"bytes", "2">>, <<>>,
                         <<"include", "a.s">>, <<"include_bytes", "f.bin">> }
           a_text == << <<"bytes", "7">>, <<"include_bytes", "f.bin">> >>
           a_s    == {EmptyMap} \cup {[p \in {Path(d, "a.s")} |-> a_text] : d \in {"inc", "cwd"}}
           bin(d, datas) == {EmptyMap} \cup {[p \in {Path(d, "f.bin")} |-> b] : b \in datas}
       IN  \E text \in UNION {[1..k -> alphabet] : k \in 1..2}, inline \in BOOLEAN,
              dirs \in {<<>>, <<"inc">>}, a \in a_s, i \in bin("inc", {<<1, 2>>, <<7, 8>>}),
              c \in bin("cwd", {<<1, 2>>, <<7, 8>>, <<9>>}), p \in bin("proj", {<<1, 2>>, <<7, 8>>}) :
               rin = [source |-> [inline |-> inline, text |-> text, path |-> Path("proj", "main.s")],
                      include_dirs |-> dirs,
                      fs |-> [q \in {Path("proj", "main.s")} |-> text] @@ a @@ i @@ c @@ p]
    /\ rout = <<>>
    /\ pc = "read_lines"
    /\ src = <<>>
    /\ compress = FALSE
    /\ items = <<>>
    /\ constants = EmptyMap
    /\ labels = EmptyMap
    /\ alog = <<>>
    /\ err = NoErr
    /\ program = <<>>
    /\ [][ReadLines \/ ReadIncludeBytes]_vars

\* the reader returned its Lines (no include or include_bytes failed to locate its file)
ReaderLocated == pc = "read" \/ (pc = "failed" /\ err.type # "AssemblerError")

\* what the source stands for: every include_bytes line replaced by the bytes of the file
\* found first in the include directories and then in the directory of the referring
\* source, every include line by the lines of the file found the same way
RECURSIVE ExpectedChunks(_, _)
ExpectedChunks(text, base) ==
    LET dirs == rin.include_dirs \o <<base>>
        at(name) == CHOOSE d \in 1..Len(dirs) :
                        /\ Path(dirs[d], name) \in DOMAIN rin.fs
                        /\ \A e \in 1..(d - 1) : Path(dirs[e], name) \notin DOMAIN rin.fs
        located(name) == Path(dirs[at(name)], name)
    IN  IF text = <<>> THEN <<>>
        ELSE LET raw == Head(text)
                 rest == ExpectedChunks(Tail(text), base)
             IN  IF raw = <<>> THEN rest
                 ELSE IF raw[1] = "include"
                 THEN ExpectedChunks(rin.fs[located(raw[2])], located(raw[2]).dir) \o rest
                 ELSE IF raw[1] = "include_bytes"
                 THEN <<[words |-> <<>>, data |-> rin.fs[located(raw[2])]]>> \o rest
                 ELSE <<[words |-> raw, data |-> <<>>]>> \o rest

\* C23: when read_lines has located the file of every include_bytes line (in an include
\* directory or in the directory of the referring source) and no file changes, the run
\* splices exactly the bytes of the located file, as many as the size recorded: the late
\* read of resolve_include_bytes opens the file the reader measured.
C23_IncludeBytesSameFile ==
    ReaderLocated =>
        /\ err = NoErr
        /\ program = ExpectedChunks(rin.source.text,
                                    IF rin.source.inline THEN "cwd" ELSE rin.source.path.dir)

\* the text a Line was made from, given the raw line at its place (an include_bytes
\* line carries the size behind its words)
FromRawLine(contents, raw) ==
    \/ contents = raw
    \/ raw # <<>> /\ raw[1] = "include_bytes" /\ Len(contents) = Len(raw) + 1
         /\ SubSeq(contents, 1, Len(raw)) = raw

\* C24: every Line read_lines returns carries the path of the file whose text holds
\* the line ("<string>" for inline source) and the 1-based number of the line in that
\* text, also behind an include or include_bytes directive of the including source.
C24_LineOrigin ==
    ReaderLocated =>
        \A k \in 1..Len(rout) :
            LET line == rout[k]
                text == IF line.file = Path("", "<string>") THEN rin.source.text
                        ELSE rin.fs[File(line.file)]
            IN  /\ line.file = Path("", "<string>") => rin.source.inline
                /\ line.file # Path("", "<string>") =>
                       /\ File(line.file) \in DOMAIN rin.fs
                       /\ line.file.name \in {"main.s", "a.s"}
                /\ line.number \in 1..Len(text)
                /\ FromRawLine(line.contents, text[line.number])


(***************************************************************************)
(* Runs with maps handed in by the caller: assemble(source, constants=..., *)
(* labels=...) starts from the caller's maps and works on them in place.   *)
(***************************************************************************)
CallerPrograms ==
    LET \* an error directive among lines that fail to read ("include"), to parse
        \* ("add" with two operands) or in a later pass (a name nobody defines, an
        \* immediate out of range), and lines that do not fail
        boom   == Op("error", <<Id("boom")>>)
        Lines  == { boom, Op("error", <<Id("Boom"), Id("X")>>),
                    Op("include", <<Id("missing.s")>>),
                    Op("add", <<Id("x1"), Id("x2")>>),
                    Op("addi", <<Id("x1"), Id("x1"), Id("NOBODY")>>),
                    Op("addi", <<Id("x1"), Id("x1"), N(99999)>>),
                    Op("addi", <<Id("x1"), Id("x1"), Id("A")>>),
                    ConstStmt(Id("C"), N(3)), LabelStmt("D") }
        Errors == UNION {[1..k -> Lines] : k \in 1..2}
                  \cup {<<a, boom, b>> : a \in Lines, b \in Lines}
        \* items that make later labels shrink (a short li, a compressible addi, an
        \* align), a label of the source and a jump to a label of the caller
        Moving == { Op("li", <<Id("x5"), N(1)>>), Op("addi", <<Id("x9"), Id("x9"), N(1)>>),
                    Op("bytes", <<N(1)>>), Op("align", <<N(4)>>), LabelStmt("D"),
                    Op("jal", <<Id("x0"), Id("ext")>>) }
        Shrinks == UNION {[1..k -> Moving] : k \in 1..3}
        \* a name bound as a constant and as a label, by the source or by the caller,
        \* and an instruction that uses it
        four   == Op("bytes", <<N(1), N(2), N(3), N(4)>>)
        uses(n) == { Op("addi", <<Id("x1"), Id("x0"), Id(n)>>), Op("li", <<Id("x5"), Id(n)>>),
                     Op("jal", <<Id("x0"), Id(n)>>), Op("beq", <<Id("x8"), Id("x0"), Id(n)>>) }
        L64    == ConstStmt(Id("L"), N(64))
        Both   == UNION {{<<L64, four, LabelStmt("L"), u>>, <<four, LabelStmt("L"), L64, u>>,
                          <<u, L64, four, LabelStmt("L")>>} : u \in uses("L")}
                  \cup {<<four, LabelStmt("A"), u>> : u \in uses("A")}
                  \cup {<<ConstStmt(Id("ext"), N(64)), four, u>> : u \in uses("ext")}
    IN  Errors \cup Shrinks \cup Both

SpecCaller ==
    /\ src \in CallerPrograms
    /\ compress \in BOOLEAN
    /\ pc = "parse"
    /\ items = <<>>
    /\ constants \in {EmptyMap, [n \in {"A"} |-> 1]}
    /\ labels \in {EmptyMap, [n \in {"ext", "four"} |-> IF n = "ext" THEN 100 ELSE 4]}
    /\ alog = <<>>
    /\ err = NoErr
    /\ program = <<>>
    /\ rin = Wide(0, 0)
    /\ rout = [hi |-> 0, lo |-> 0]
    /\ [][Next]_vars

\* the lines whose head is "error" and that carry a message
ErrorLines == {k \in 1..Len(src) : src[k].kind = "op" /\ src[k].head = "error" /\ src[k].toks # <<>>}

\* the first of them, with no line before it that fails to read or to parse
FirstError == CHOOSE k \in ErrorLines : \A j \in ErrorLines : k <= j

NoEarlierFails ==
    \A j \in 1..(FirstError - 1) :
        /\ ~(src[j].kind = "op" /\ src[j].head = "include")
        /\ parse_item(src[j], j).err = NoErr

\* C25: when the source holds an "error msg" directive and no earlier line fails to
\* read or to parse, the run ends while parsing with the AssemblerError of that line:
\* no resolver pass runs, the caller's constants and labels are as they were, and no
\* error of another line is reported in its place.
C25_ErrorDirectiveFirst ==
    [][(ErrorLines # {} /\ NoEarlierFails) =>
           /\ pc = "parse" /\ pc' = "failed"
           /\ err' = AssemblerError(FirstError)
           /\ constants' = constants /\ labels' = labels]_vars

\* the same for a directive the lexer recognised (one message token), in a source all
\* of whose lines can be read
C25_ErrorDirectiveFirstWhenRead ==
    [][(/\ ErrorLines # {} /\ NoEarlierFails
        /\ Len(src[FirstError].toks) = 1
        /\ \A j \in 1..Len(src) : ~(src[j].kind = "op" /\ src[j].head = "include")) =>
           /\ pc = "parse" /\ pc' = "failed"
           /\ err' = AssemblerError(FirstError)
           /\ constants' = constants /\ labels' = labels]_vars


\* the value that the instructions of bs leave in their register: lui (0110111) and
\* c.lui (quadrant 1, 011) set imm << 12, addi (0010011), c.li (010) and c.addi (000)
\* add their immediate
Materialised(bs) ==
    LET RECURSIVE Value(_)
        Value(at) ==
            IF at > Len(bs) THEN 0
            ELSE LET wide == bs[at] % 4 = 3
                     w == SubSeq(bs, at, at + (IF wide THEN 3 ELSE 1))
                     ci == BitField(w, 2, 5) - 32 * BitOf(w, 12)
                 IN  (CASE wide /\ w[1] % 128 = 55 ->
                               (BitField(w, 12, 19) - 524288 * BitOf(w, 31)) * 4096
                        [] wide /\ w[1] % 128 = 19 -> BitField(w, 20, 11) - 2048 * BitOf(w, 31)
                        [] ~wide /\ BitField(w, 13, 3) = 3 -> ci * 4096
                        [] ~wide /\ BitField(w, 13, 3) \in {0, 2} -> ci
                        [] OTHER -> 0)
                     + Value(at + (IF wide THEN 4 ELSE 2))
    IN  Value(1)

\* the li lines whose operand is a label of the source
LiLabelLines == {k \in LiLines : ~src[k].toks[2].num /\ src[k].toks[2].id \in LabelNames}

\* C26: for every "li rd, expr" whose expr is a label of the source, the value the
\* emitted instruction or instructions materialise (the addi immediate, the lui
\* immediate << 12, or their sum) is the final position of the label, whatever lowered
\* the label after the one- or two-instruction form was chosen.
C26_LiLabelValue ==
    pc = "done" =>
        \A k \in LiLabelLines :
            Materialised(LineBytes(k)) = BytesBefore(KeptLine(src[k].toks[2].id))


\* the items that transform_compressible made out of a jal, beq or bne naming a label
\* of the source (a name that is also a constant stands for the constant)
RewrittenJumps ==
    {i \in 1..Len(items) :
        /\ items[i].t # "Blob"
        /\ items[i].name \in {"c.j", "c.jal", "c.beqz", "c.bnez"}
        /\ LET st == src[items[i].line]
               target == st.toks[Len(st.toks)]
           IN  /\ st.kind = "op" /\ st.head \in {"jal", "beq", "bne"}
               /\ ~target.num /\ target.id \in LabelNames \ DOMAIN constants}

\* C27: a jal, beq or bne naming a label of the source that transform_compressible
\* rewrote into c.j, c.jal, c.beqz or c.bnez has, when resolve_immediates evaluates it
\* in the final layout, an offset within the range of its form: [-2048, 2046] for
\* c.j and c.jal, [-256, 254] for c.beqz and c.bnez.
C27_CompressedJumpStaysInRange ==
    pc = "resolve_instructions" =>
        \A i \in RewrittenJumps :
            IF items[i].name \in {"c.j", "c.jal"}
            THEN items[i].imm.v >= -2048 /\ items[i].imm.v <= 2046
            ELSE items[i].imm.v >= -256 /\ items[i].imm.v <= 254

\* the same for the sources whose aligns all have a positive alignment
C27_CompressedJumpStaysInRangeAlignedUp ==
    (\A k \in AlignLines : src[k].toks # <<>> /\ src[k].toks[1].num /\ src[k].toks[1].v >= 1)
        => C27_CompressedJumpStaysInRange


\* the number of bytes of an output (the bytes of an included file stand in it as one
\* chunk, the negative of their count)
OutputLength(out) ==
    LET RECURSIVE Count(_)
        Count(i) == IF i > Len(out) THEN 0
                    ELSE (IF out[i] < 0 THEN 0 - out[i] ELSE 1) + Count(i + 1)
    IN  Count(1)

\* C28: for every source that assembles with compress on and with compress off, the
\* output with compress on is never longer than the output with compress off.
C28_CompressNeverLonger ==
    (pc = "done" /\ compress) =>
        LET plain == assemble(src, FALSE)
        IN  plain.pc = "done" => OutputLength(program) <= OutputLength(plain.program)

\* the same for the sources without a li of a label and without an align of negative
\* alignment
C28_CompressNeverLongerPlainLayout ==
    (/\ LiLabelLines = {}
     /\ \A k \in AlignLines : src[k].toks # <<>> /\ src[k].toks[1].num /\ src[k].toks[1].v >= 1)
        => C28_CompressNeverLonger


\* C29: the entries of the caller's labels map whose names the source does not define
\* as labels keep their values throughout assemble: the shrink steps of the passes
\* change only labels of the source.
C29_CallerLabelsKept ==
    [][\A n \in DOMAIN labels : n \notin LabelNames => (n \in DOMAIN labels' /\ labels'[n] = labels[n])]_vars

\* the same for the entries at position 0 (those of test_assemble_pseudo_instructions
\* that the programs of the test can reach)
C29_CallerLabelsAtZeroKept ==
    [][\A n \in DOMAIN labels :
           (n \notin LabelNames /\ labels[n] <= 0) => (n \in DOMAIN labels' /\ labels'[n] = labels[n])]_vars


\* the lines whose instruction names, as its immediate, a name bound both as a
\* constant and as a label
BothBoundLines ==
    {k \in 1..Len(src) :
        /\ src[k].kind = "op" /\ src[k].head \in {"addi", "li", "jal", "beq"}
        /\ LET n == src[k].toks[Len(src[k].toks)]
           IN  ~n.num /\ n.id \in DOMAIN constants \cap DOMAIN labels}

\* C30: when a name is bound as a constant and as a label, every expression evaluated
\* after resolve_constants takes the value of the constant, never the position of the
\* label: an immediate is the constant, an offset the constant minus the position of
\* the instruction.
C30_ConstantShadowsLabel ==
    pc = "done" =>
        \A k \in BothBoundLines :
            LET n == src[k].toks[Len(src[k].toks)].id
            IN  IF src[k].head \in {"jal", "beq"}
                THEN DecodedOffset(LineBytes(k)) = constants[n] - BytesBefore(k)
                ELSE Materialised(LineBytes(k)) = constants[n]

\* L = 64 and L: at position 4: the jal at position 4 jumps 60 bytes ahead
C30_Witness ==
    /\ pc = "done" /\ ~compress
    /\ src = <<ConstStmt(Id("L"), N(64)), Op("bytes", <<N(1), N(2), N(3), N(4)>>),
               LabelStmt("L"), Op("jal", <<Id("x0"), Id("L")>>)>>
    /\ BothBoundLines = {4}
    /\ constants["L"] = 64 /\ labels["L"] = 4
    /\ program = <<1, 2, 3, 4, 111, 0, 192, 3>>
====
